---------------------------- MODULE Spec2Model ----------------------------
(***************************************************************************)
(* Model of the calendar-aware series-extension engine of                  *)
(* financial-indicators: the Workdays calendar (binary_search,             *)
(* get_extra_workdays) and the expander strategies built on it.            *)
(*                                                                         *)
(* Python values are modelled as follows.                                  *)
(*   datetime.date      record [year, month, day]; comparison is the       *)
(*                      lexicographic order on (year, month, day);         *)
(*                      date + timedelta goes through the proleptic        *)
(*                      Gregorian ordinal, as datetime does                *)
(*   tuple / list       sequence; Python positions are 0-based, so the     *)
(*                      element at Python position i is seq[i + 1]         *)
(*   a call             [raised |-> "None", value |-> v] when it returns   *)
(*                      v, [raised |-> "LookupError"] etc. when it raises  *)
(***************************************************************************)
EXTENDS Integers, Sequences, FiniteSets, TLC

VARIABLES
    files,              \* rows of the csv file at each path
    workdays,           \* _workdays of the Workdays instance kept by the
                        \* singleton wrapper, None when there is none
    workdays_path,      \* _workdays_path of that instance
    loads,              \* number of runs of Workdays._load_workdays
    path_arg,           \* workdays_path argument of the last Workdays(...)
    pc,                 \* "ready" before the call, "done" after it
    op,                 \* name of the operation that was called
    array,              \* sequence argument of binary_search
    start_date,         \* date argument (start_date / element)
    end_date,           \* second date argument of _get_next_days
    extra_days,         \* extra_days argument of get_extra_workdays
    financial_records,  \* input series of an expander strategy
    month_arg,          \* argument of get_next_month
    indices_code,       \* code of the series handed to the expander
    today,              \* datetime.date.today()
    response,           \* answer of the BCB server to the proxy request
    lookups,            \* dates the expander call searched in the calendar
    requests,           \* urls the expander call requested from the server
    result,             \* outcome of the call
    expanded_indices_records,
                        \* IndicesExpander._expanded_indices_records
    main_pc,            \* position of main: "none", "loop", "save", "end"
                        \* or "crashed"
    need_update,        \* need_update of main
    indices_dates,      \* MetadataWriter.indices_dates of the workbook
    worksheets,         \* rows below the headers of the sheet of each code
    saves,              \* number of times the workbook file was saved
    server,             \* series of each code on the BCB server
    api_records,        \* FinancialIndicesApi._indices_records
    processed           \* codes main has gone through, with what it did

calendarVars == <<files, workdays_path, loads, path_arg>>

vars == <<files, workdays, workdays_path, loads, path_arg, pc, op, array, start_date, end_date, extra_days,
          financial_records, month_arg, indices_code, today, response,
          lookups, requests, result, expanded_indices_records, main_pc,
          need_update, indices_dates, worksheets, saves, server,
          api_records, processed>>

storeVars == <<expanded_indices_records>>

mainVars == <<main_pc, need_update, indices_dates, worksheets, saves, server,
              api_records, processed>>

\* IndicesExpander.__init__: nothing is stored
StoreEmpty == expanded_indices_records = <<>>

\* main is not running
MainNotStarted ==
    /\ main_pc = "none"
    /\ need_update = FALSE
    /\ indices_dates = <<>>
    /\ worksheets = <<>>
    /\ saves = 0
    /\ server = <<>>
    /\ api_records = <<>>
    /\ processed = <<>>

(***************************************************************************)
(* Bounds of the model.                                                    *)
(***************************************************************************)
\* number of calendar days covered by the model calendar
CalendarSpan == 67
\* calendar days before the first and after the last calendar entry from
\* which date arguments are drawn
Margin == 3
\* extra_days arguments range over -MaxExtra .. MaxExtra
MaxExtra == 50
\* largest distance in days between start_date and end_date arguments
MaxGap == 33

\* stands for Python's None
None == [none |-> TRUE]

\* x is None
IsNone(x) == DOMAIN x = {"none"}

Return(v) == [raised |-> "None", value |-> v]

Raise(e) == [raised |-> e]

(***************************************************************************)
(* datetime.date                                                           *)
(***************************************************************************)
Date(y, m, d) == [year |-> y, month |-> m, day |-> d]

IsLeap(y) == y % 4 = 0 /\ (y % 100 # 0 \/ y % 400 = 0)

DaysInMonth(y, m) ==
    IF m = 2 THEN (IF IsLeap(y) THEN 29 ELSE 28)
    ELSE IF m \in {4, 6, 9, 11} THEN 30 ELSE 31

\* datetime.date(year, month, day) raises ValueError unless this holds
ValidDate(y, m, d) == m \in 1..12 /\ d \in 1..DaysInMonth(y, m)

\* date1 < date2, date1 <= date2
DateLT(a, b) ==
    \/ a.year < b.year
    \/ a.year = b.year /\ a.month < b.month
    \/ a.year = b.year /\ a.month = b.month /\ a.day < b.day

DateLE(a, b) == a = b \/ DateLT(a, b)

\* number of days before January 1st of year y
DaysBeforeYear(y) ==
    (y - 1) * 365 + (y - 1) \div 4 - (y - 1) \div 100 + (y - 1) \div 400

\* number of days of a common year before the first day of each month
DaysBeforeMonthTable ==
    <<0, 31, 59, 90, 120, 151, 181, 212, 243, 273, 304, 334>>

\* number of days in year y before the first day of month m
DaysBeforeMonth(y, m) ==
    DaysBeforeMonthTable[m] + (IF m > 2 /\ IsLeap(y) THEN 1 ELSE 0)

\* date.toordinal(): 0001-01-01 has ordinal 1
ToOrdinal(date) ==
    DaysBeforeYear(date.year) + DaysBeforeMonth(date.year, date.month)
        + date.day

RECURSIVE YearOfOrdinal(_, _)
YearOfOrdinal(n, y) ==
    IF n <= DaysBeforeYear(y + 1) THEN y ELSE YearOfOrdinal(n, y + 1)

RECURSIVE MonthOfOrdinal(_, _, _)
MonthOfOrdinal(n, y, m) ==
    IF n <= DaysBeforeMonth(y, m) + DaysInMonth(y, m) THEN m
    ELSE MonthOfOrdinal(n, y, m + 1)

\* date.fromordinal(n)
FromOrdinal(n) ==
    LET y == YearOfOrdinal(n, n \div 366 + 1)
        r == n - DaysBeforeYear(y)
        m == MonthOfOrdinal(r, y, 1)
    IN  Date(y, m, r - DaysBeforeMonth(y, m))

\* date + datetime.timedelta(days=n)
AddDays(date, n) == FromOrdinal(ToOrdinal(date) + n)

\* date.weekday(): Monday is 0, Sunday is 6
Weekday(date) == (ToOrdinal(date) + 6) % 7

(***************************************************************************)
(* The calendar.  workdays.csv lists the Brazilian workdays from           *)
(* 2001-01-02 on; the model calendar is its beginning: the days of         *)
(* CalendarSpan calendar days that are neither weekend days nor holidays.  *)
(***************************************************************************)
FirstWorkday == Date(2001, 1, 2)

\* Carnival 2001
Holidays == {Date(2001, 2, 26), Date(2001, 2, 27)}

RECURSIVE WorkdaysFrom(_, _)
WorkdaysFrom(date, n) ==
    IF n = 0 THEN <<>>
    ELSE IF Weekday(date) < 5 /\ date \notin Holidays
         THEN <<date>> \o WorkdaysFrom(AddDays(date, 1), n - 1)
         ELSE WorkdaysFrom(AddDays(date, 1), n - 1)

\* a row of the csv file, 'yyyy-mm-dd'
Row(date) == <<date.year, date.month, date.day>>

\* datetime.datetime.strptime(string_date, '%Y-%m-%d').date()
ParseRow(row) == Date(row[1], row[2], row[3])

\* the rows of workdays.csv
WorkdaysCsv ==
    LET dates == WorkdaysFrom(FirstWorkday, CalendarSpan)
    IN  [k \in 1..Len(dates) |-> Row(dates[k])]

\* the number of workdays of workdays.csv (19,593 for 2001 to 2078)
_number_workdays == Len(WorkdaysCsv)

\* variant: the number of rows is not checked
_load_workdays_unchecked(rows) ==
    Return([k \in 1..Len(rows) |-> ParseRow(rows[k])])

\* Workdays._load_workdays on a file that holds rows
_load_workdays(rows) ==
    LET workdays_temp == [k \in 1..Len(rows) |-> ParseRow(rows[k])]
    IN  IF Len(workdays_temp) # _number_workdays
        THEN Raise("AssertionError")
        ELSE Return(workdays_temp)

\* a path of the file system
Path(name) == [path |-> name]

\* os.path.join(os.path.dirname(__file__), 'workdays.csv')
DefaultPath == Path("workdays.csv")

\* Workdays.__init__(workdays_path): value is the new instance, loads the
\* number of runs of _load_workdays
Workdays__init__(workdays_path_arg, _files) ==
    LET path == IF IsNone(workdays_path_arg) THEN DefaultPath
                ELSE workdays_path_arg
        loaded == _load_workdays(_files[path])
    IN  IF loaded.raised # "None"
        THEN [raised |-> loaded.raised, loads |-> 1]
        ELSE [raised |-> "None",
              value |-> [_workdays_path |-> path, _workdays |-> loaded.value],
              loads |-> 1]

\* variant: the wrapper builds a new instance at every call
singleton_uncached(_instance, workdays_path_arg, _files) ==
    Workdays__init__(workdays_path_arg, _files)

\* the wrapper of utils.singleton around Workdays: _instance is
\* wrapper._instance
singleton(_instance, workdays_path_arg, _files) ==
    IF IsNone(_instance) THEN Workdays__init__(workdays_path_arg, _files)
    ELSE [raised |-> "None", value |-> _instance, loads |-> 0]

\* the state after Workdays() has loaded workdays.csv
ReferenceFiles == [p \in {DefaultPath} |-> WorkdaysCsv]

CalendarLoaded ==
    /\ files = ReferenceFiles
    /\ workdays = _load_workdays(WorkdaysCsv).value
    /\ workdays_path = DefaultPath
    /\ loads = 1
    /\ path_arg = None

(***************************************************************************)
(* Workdays.binary_search and Workdays.get_extra_workdays                  *)
(***************************************************************************)
RECURSIVE bisect_right(_, _, _, _)
\* variant: the insertion point after the entries equal to x
bisect_right(a, x, lo, hi) ==
    IF lo < hi
    THEN LET mid == (lo + hi) \div 2
         IN  IF DateLE(a[mid + 1], x)
             THEN bisect_right(a, x, mid + 1, hi)
             ELSE bisect_right(a, x, lo, mid)
    ELSE lo

RECURSIVE bisect_left(_, _, _, _)
\* bisect.bisect_left(a, x) with lo = 0, hi = len(a)
bisect_left(a, x, lo, hi) ==
    IF lo < hi
    THEN LET mid == (lo + hi) \div 2
         IN  IF DateLT(a[mid + 1], x)
             THEN bisect_left(a, x, mid + 1, hi)
             ELSE bisect_left(a, x, lo, mid)
    ELSE lo

binary_search(a, element) ==
    LET index == bisect_left(a, element, 0, Len(a))
    IN  IF index # Len(a) /\ a[index + 1] = element
        THEN Return(index)
        ELSE Raise("LookupError")

\* a slice bound as Python normalises it for a sequence of length n
SliceIndex(i, n) ==
    IF i < 0 THEN (IF i + n < 0 THEN 0 ELSE i + n)
    ELSE IF i > n THEN n ELSE i

\* seq[first:second]
Slice(seq, first, second) ==
    LET lo == SliceIndex(first, Len(seq))
        hi == SliceIndex(second, Len(seq))
    IN  IF lo < hi THEN SubSeq(seq, lo + 1, hi) ELSE <<>>

\* variant: the slice starts at the position of date itself
get_extra_workdays_from_date(_workdays, date, days) ==
    LET found == binary_search(_workdays, date)
    IN  IF found.raised # "None" THEN Raise("LookupError")
        ELSE LET first_index == found.value
                 second_index == first_index + days
             IN  Return(Slice(_workdays, first_index, second_index))

\* variant: a slice that runs past the end of the calendar is an error
get_extra_workdays_strict(_workdays, date, days) ==
    LET found == binary_search(_workdays, date)
    IN  IF found.raised # "None" THEN Raise("LookupError")
        ELSE LET first_index == found.value + 1
                 second_index == first_index + days
             IN  IF second_index > Len(_workdays) THEN Raise("LookupError")
                 ELSE Return(Slice(_workdays, first_index, second_index))

get_extra_workdays(_workdays, date, days) ==
    LET found == binary_search(_workdays, date)
    IN  IF found.raised # "None" THEN Raise("LookupError")
        ELSE LET first_index == found.value + 1
                 second_index == first_index + days
             IN  Return(Slice(_workdays, first_index, second_index))

(***************************************************************************)
(* Inputs                                                                  *)
(***************************************************************************)
\* dates from Margin days before the first to Margin days after the last
\* calendar entry: workdays, weekend days, holidays and dates outside
DateArgs ==
    { AddDays(FirstWorkday, k) : k \in (0 - Margin)..(CalendarSpan - 1 + Margin) }

\* lengths of the prefixes of the calendar that binary_search is applied to
ArrayLens == {0, 1, 2, _number_workdays}

(***************************************************************************)
(* Calls of the calendar: one call of binary_search or get_extra_workdays  *)
(* with arguments drawn from DateArgs and -MaxExtra..MaxExtra.             *)
(***************************************************************************)
InitWorkdays ==
    /\ CalendarLoaded
    /\ StoreEmpty
    /\ MainNotStarted
    /\ pc = "ready"
    /\ op = "none"
    /\ array = <<>>
    /\ start_date \in DateArgs
    /\ end_date = None
    /\ extra_days \in (0 - MaxExtra)..MaxExtra
    /\ financial_records = <<>>
    /\ month_arg = None
    /\ indices_code = None
    /\ today = None
    /\ response = None
    /\ lookups = <<>>
    /\ requests = <<>>
    /\ result = None

BinarySearch ==
    /\ pc = "ready"
    /\ \E n \in ArrayLens :
          /\ array' = SubSeq(workdays, 1, n)
          /\ result' = binary_search(array', start_date)
    /\ pc' = "done"
    /\ op' = "binary_search"
    /\ UNCHANGED <<calendarVars, storeVars, mainVars>>
    /\ UNCHANGED <<workdays, start_date, end_date, extra_days,
                   financial_records, month_arg, indices_code, today, response,
                   lookups, requests>>

GetExtraWorkdays ==
    /\ pc = "ready"
    /\ result' = get_extra_workdays(workdays, start_date, extra_days)
    /\ pc' = "done"
    /\ op' = "get_extra_workdays"
    /\ UNCHANGED <<calendarVars, storeVars, mainVars>>
    /\ UNCHANGED <<workdays, array, start_date, end_date, extra_days,
                   financial_records, month_arg, indices_code, today, response,
                   lookups, requests>>

NextWorkdays == BinarySearch \/ GetExtraWorkdays

SpecWorkdays == InitWorkdays /\ [][NextWorkdays]_vars

(***************************************************************************)
(* The expander: month helpers and the next-pair rule of code 226          *)
(***************************************************************************)
\* variant: the remainder is returned as it is
get_next_month_plain_modulo(month) ==
    IF ~(1 <= month /\ month <= 12) THEN Raise("ValueError")
    ELSE Return((month + 1) % 12)

get_next_month(month) ==
    IF ~(1 <= month /\ month <= 12) THEN Raise("ValueError")
    ELSE Return(IF (month + 1) % 12 # 0 THEN (month + 1) % 12 ELSE 12)

\* variant: the year is not advanced after December
is_same_date_month_ahead_same_year(date1, date2) ==
    LET next_month == get_next_month(date1.month).value
        next_year == date1.year
    IN  IF ValidDate(next_year, next_month, date1.day)
        THEN Date(next_year, next_month, date1.day) = date2
        ELSE FALSE

\* variant: a day missing in the next month is replaced by its last day
is_same_date_month_ahead_clamped(date1, date2) ==
    LET next_month == get_next_month(date1.month).value
        next_year == IF next_month # 1 THEN date1.year ELSE date1.year + 1
        last_day == DaysInMonth(next_year, next_month)
    IN  IF date1.day <= last_day
        THEN Date(next_year, next_month, date1.day) = date2
        ELSE Date(next_year, next_month, last_day) = date2

is_same_date_month_ahead(date1, date2) ==
    LET next_month == get_next_month(date1.month).value
        next_year == IF next_month # 1 THEN date1.year ELSE date1.year + 1
    IN  IF ValidDate(next_year, next_month, date1.day)
        THEN Date(next_year, next_month, date1.day) = date2
        ELSE FALSE

\* variant: the day-1 anchor rule is tried before the month-ahead rule
_get_next_days_anchor_first(date, end) ==
    IF DateLE(end, date) THEN Raise("ValueError")
    ELSE IF date.day = 1 THEN Return(<<date, AddDays(end, 1)>>)
    ELSE IF is_same_date_month_ahead(date, end)
         THEN Return(<<AddDays(date, 1), AddDays(end, 1)>>)
    ELSE IF end.day = 1 THEN Return(<<AddDays(date, 1), end>>)
    ELSE Raise("ValueError")

\* variant: only end_date < start_date is rejected
_get_next_days_accepts_equal(date, end) ==
    IF DateLT(end, date) THEN Raise("ValueError")
    ELSE IF is_same_date_month_ahead(date, end)
         THEN Return(<<AddDays(date, 1), AddDays(end, 1)>>)
    ELSE IF date.day = 1 THEN Return(<<date, AddDays(end, 1)>>)
    ELSE IF end.day = 1 THEN Return(<<AddDays(date, 1), end>>)
    ELSE Raise("ValueError")

\* variant: the third rule advances end_date too
_get_next_days_end_not_held(date, end) ==
    IF DateLE(end, date) THEN Raise("ValueError")
    ELSE IF is_same_date_month_ahead(date, end)
         THEN Return(<<AddDays(date, 1), AddDays(end, 1)>>)
    ELSE IF date.day = 1 THEN Return(<<date, AddDays(end, 1)>>)
    ELSE IF end.day = 1 THEN Return(<<AddDays(date, 1), AddDays(end, 1)>>)
    ELSE Raise("ValueError")

_get_next_days(date, end) ==
    IF DateLE(end, date) THEN Raise("ValueError")
    ELSE IF is_same_date_month_ahead(date, end)
         THEN Return(<<AddDays(date, 1), AddDays(end, 1)>>)
    ELSE IF date.day = 1 THEN Return(<<date, AddDays(end, 1)>>)
    ELSE IF end.day = 1 THEN Return(<<AddDays(date, 1), end>>)
    ELSE Raise("ValueError")

(***************************************************************************)
(* Strategy A, codes 11 and 12                                             *)
(***************************************************************************)
\* default of the extra_days parameter of get_extra_workdays
DefaultExtraDays == 30

\* IndicesRecord({'date': ..., 'value': ...})
IndicesRecord(date, value) == [date |-> date, value |-> value]

\* variant: the synthetic records repeat the value of the first record
_daily_workday_expander_first_value(_workdays, records) ==
    IF records = <<>> THEN Return(<<>>)
    ELSE LET last_date == records[Len(records)].date
             value == records[1].value
             extra_workdays ==
                 get_extra_workdays(_workdays, last_date, DefaultExtraDays)
         IN  IF extra_workdays.raised # "None" THEN extra_workdays
             ELSE LET days == extra_workdays.value
                      extra_records ==
                          [k \in 1..Len(days) |-> IndicesRecord(days[k], value)]
                  IN  Return(records \o extra_records)

\* variant: the date of every input record has to be a workday
_daily_workday_expander_all_dates(_workdays, records) ==
    IF records = <<>> THEN Return(<<>>)
    ELSE LET last_date == records[Len(records)].date
             value == records[Len(records)].value
             extra_workdays ==
                 get_extra_workdays(_workdays, last_date, DefaultExtraDays)
         IN  IF \E k \in 1..Len(records) :
                    binary_search(_workdays, records[k].date).raised # "None"
             THEN Raise("LookupError")
             ELSE LET days == extra_workdays.value
                      extra_records ==
                          [k \in 1..Len(days) |-> IndicesRecord(days[k], value)]
                  IN  Return(records \o extra_records)

_daily_workday_indices_expander(_workdays, records) ==
    IF records = <<>> THEN Return(<<>>)
    ELSE LET last_date == records[Len(records)].date
             value == records[Len(records)].value
             extra_workdays ==
                 get_extra_workdays(_workdays, last_date, DefaultExtraDays)
         IN  IF extra_workdays.raised # "None" THEN extra_workdays
             ELSE LET days == extra_workdays.value
                      extra_records ==
                          [k \in 1..Len(days) |-> IndicesRecord(days[k], value)]
                  IN  Return(records \o extra_records)

(***************************************************************************)
(* Strategy B, code 226                                                    *)
(***************************************************************************)
\* number of iterations of the loop of the three-field expander
ThreeFieldSteps == 30

\* IndicesRecord({'date': ..., 'end_date': ..., 'value': ...})
IndicesRecord3(date, end, value) ==
    [date |-> date, end_date |-> end, value |-> value]

RECURSIVE ThreeFieldLoopStale(_, _, _, _, _)
\* variant: the record is built from the cursor before it is advanced
ThreeFieldLoopStale(date, end, value, extra_records, n) ==
    IF n = 0 THEN Return(extra_records)
    ELSE LET next == _get_next_days(date, end)
         IN  IF next.raised # "None" THEN next
             ELSE ThreeFieldLoopStale(next.value[1], next.value[2], value,
                      Append(extra_records,
                             IndicesRecord3(date, end, value)),
                      n - 1)

RECURSIVE ThreeFieldLoop(_, _, _, _, _)
\* the for loop: n iterations are left, extra_records holds the records
\* appended so far and (date, end) is the cursor
ThreeFieldLoop(date, end, value, extra_records, n) ==
    IF n = 0 THEN Return(extra_records)
    ELSE LET next == _get_next_days(date, end)
         IN  IF next.raised # "None" THEN next
             ELSE ThreeFieldLoop(next.value[1], next.value[2], value,
                      Append(extra_records,
                             IndicesRecord3(next.value[1], next.value[2],
                                            value)),
                      n - 1)

\* variant: the cursor starts at the first record of the input
_daily_three_field_expander_from_first(records) ==
    IF records = <<>> THEN Return(<<>>)
    ELSE LET first == records[1]
             extra_records ==
                 ThreeFieldLoop(first.date, first.end_date, first.value,
                                <<>>, ThreeFieldSteps)
         IN  IF extra_records.raised # "None" THEN extra_records
             ELSE Return(records \o extra_records.value)

\* variant: the loop runs one time less
_daily_three_field_expander_one_less(records) ==
    IF records = <<>> THEN Return(<<>>)
    ELSE LET last == records[Len(records)]
             extra_records ==
                 ThreeFieldLoop(last.date, last.end_date, last.value, <<>>,
                                ThreeFieldSteps - 1)
         IN  IF extra_records.raised # "None" THEN extra_records
             ELSE Return(records \o extra_records.value)

_daily_three_field_indices_expander(records) ==
    IF records = <<>> THEN Return(<<>>)
    ELSE LET last == records[Len(records)]
             extra_records ==
                 ThreeFieldLoop(last.date, last.end_date, last.value, <<>>,
                                ThreeFieldSteps)
         IN  IF extra_records.raised # "None" THEN extra_records
             ELSE Return(records \o extra_records.value)

(***************************************************************************)
(* Calls of Strategy A: the input series has up to two records with dates  *)
(* from DateArgs.                                                          *)
(***************************************************************************)
Values == {1, 2}

TwoFieldRecords == { IndicesRecord(d, v) : d \in DateArgs, v \in Values }

InitDaily ==
    /\ CalendarLoaded
    /\ StoreEmpty
    /\ MainNotStarted
    /\ pc = "ready"
    /\ op = "none"
    /\ array = <<>>
    /\ start_date = None
    /\ end_date = None
    /\ extra_days = DefaultExtraDays
    /\ \/ financial_records = <<>>
       \/ \E r \in TwoFieldRecords : financial_records = <<r>>
       \/ \E r \in TwoFieldRecords, q \in TwoFieldRecords :
              financial_records = <<q, r>>
    /\ month_arg = None
    /\ indices_code = None
    /\ today = None
    /\ response = None
    /\ lookups = <<>>
    /\ requests = <<>>
    /\ result = None

DailyWorkdayExpander ==
    /\ pc = "ready"
    /\ result' = _daily_workday_indices_expander(workdays, financial_records)
    /\ pc' = "done"
    /\ op' = "_daily_workday_indices_expander"
    /\ UNCHANGED <<calendarVars, storeVars, mainVars>>
    /\ UNCHANGED <<workdays, array, start_date, end_date, extra_days,
                   financial_records, month_arg, indices_code, today, response,
                   lookups, requests>>

NextDaily == DailyWorkdayExpander

SpecDaily == InitDaily /\ [][NextDaily]_vars

(***************************************************************************)
(* Calls of _get_next_days and of Strategy B.  Start dates are the days    *)
(* of two common years, two leap years (one of them a century year) and a  *)
(* century year that is not a leap year; end dates lie up to MaxGap days   *)
(* after the start date, or on or just before it.                          *)
(***************************************************************************)
Years == {1993, 1996, 2000, 2005, 2100}

StartDates ==
    { d \in { Date(y, m, n) : y \in Years, m \in 1..12, n \in 1..31 } :
          ValidDate(d.year, d.month, d.day) }

EndDates(date) == { AddDays(date, k) : k \in (0 - 2)..MaxGap }

InitNextDays ==
    /\ CalendarLoaded
    /\ StoreEmpty
    /\ MainNotStarted
    /\ pc = "ready"
    /\ op = "none"
    /\ array = <<>>
    /\ start_date \in StartDates
    /\ end_date \in EndDates(start_date)
    /\ extra_days = DefaultExtraDays
    /\ financial_records = <<>>
    /\ month_arg = None
    /\ indices_code = None
    /\ today = None
    /\ response = None
    /\ lookups = <<>>
    /\ requests = <<>>
    /\ result = None

GetNextDays ==
    /\ pc = "ready"
    /\ result' = _get_next_days(start_date, end_date)
    /\ pc' = "done"
    /\ op' = "_get_next_days"
    /\ UNCHANGED <<calendarVars, storeVars, mainVars>>
    /\ UNCHANGED <<workdays, array, start_date, end_date, extra_days,
                   financial_records, month_arg, indices_code, today, response,
                   lookups, requests>>

NextNextDays == GetNextDays

SpecNextDays == InitNextDays /\ [][NextNextDays]_vars

\* calls of is_same_date_month_ahead on the pairs of _get_next_days
IsSameDateMonthAhead ==
    /\ pc = "ready"
    /\ result' = Return(is_same_date_month_ahead(start_date, end_date))
    /\ pc' = "done"
    /\ op' = "is_same_date_month_ahead"
    /\ UNCHANGED <<calendarVars, storeVars, mainVars>>
    /\ UNCHANGED <<workdays, array, start_date, end_date, extra_days,
                   financial_records, month_arg, indices_code, today, response,
                   lookups, requests>>

NextSameDate == IsSameDateMonthAhead

SpecSameDate == InitNextDays /\ [][NextSameDate]_vars

\* the record published one day before record r, with another value
Previous(r) ==
    IndicesRecord3(AddDays(r.date, 0 - 1), AddDays(r.end_date, 0 - 1),
                   3 - r.value)

InitThreeField ==
    /\ CalendarLoaded
    /\ StoreEmpty
    /\ MainNotStarted
    /\ pc = "ready"
    /\ op = "none"
    /\ array = <<>>
    /\ start_date = None
    /\ end_date = None
    /\ extra_days = DefaultExtraDays
    /\ \/ financial_records = <<>>
       \/ \E d \in StartDates : \E e \in EndDates(d) :
              LET r == IndicesRecord3(d, e, 1)
              IN  \/ financial_records = <<r>>
                  \/ financial_records = <<Previous(r), r>>
    /\ month_arg = None
    /\ indices_code = None
    /\ today = None
    /\ response = None
    /\ lookups = <<>>
    /\ requests = <<>>
    /\ result = None

DailyThreeFieldExpander ==
    /\ pc = "ready"
    /\ result' = _daily_three_field_indices_expander(financial_records)
    /\ pc' = "done"
    /\ op' = "_daily_three_field_indices_expander"
    /\ UNCHANGED <<calendarVars, storeVars, mainVars>>
    /\ UNCHANGED <<workdays, array, start_date, end_date, extra_days,
                   financial_records, month_arg, indices_code, today, response,
                   lookups, requests>>

NextThreeField == DailyThreeFieldExpander

SpecThreeField == InitThreeField /\ [][NextThreeField]_vars

(***************************************************************************)
(* The API client (bcb_api).  A date string 'dd/mm/yyyy' is the tuple      *)
(* <<dd, mm, yyyy>>; a url is the record of the three parameters that are  *)
(* formatted into it; an entry of the JSON answer of the server is         *)
(* [data |-> <<dd, mm, yyyy>>, valor |-> v].                               *)
(***************************************************************************)
\* isinstance(x, datetime.date)
IsDate(x) == DOMAIN x = {"year", "month", "day"}

\* date.strftime('%d/%m/%Y')
Strftime(date) == <<date.day, date.month, date.year>>

\* datetime.datetime.strptime(string, '%d/%m/%Y').date()
Strptime(string) == Date(string[3], string[2], string[1])

\* variant: the order of the two dates is not checked
_create_api_url_unchecked(api_code, start, end, _today) ==
    LET end1 == IF IsNone(end) THEN _today ELSE end
    IN  Return([codigo_serie |-> api_code,
                dataInicial |-> IF IsDate(start) THEN Strftime(start)
                                ELSE start,
                dataFinal |-> Strftime(end1)])

\* variant: a start date equal to the end date is rejected too
_create_api_url_rejects_equal(api_code, start, end, _today) ==
    LET end1 == IF IsNone(end) THEN _today ELSE end
    IN  IF IsDate(start) /\ DateLE(end1, start) THEN Raise("ValueError")
        ELSE Return([codigo_serie |-> api_code,
                     dataInicial |-> IF IsDate(start) THEN Strftime(start)
                                     ELSE start,
                     dataFinal |-> Strftime(end1)])

_create_api_url(api_code, start, end, _today) ==
    LET end1 == IF IsNone(end) THEN _today ELSE end
    IN  IF IsDate(start) /\ DateLT(end1, start) THEN Raise("ValueError")
        ELSE Return([codigo_serie |-> api_code,
                     dataInicial |-> IF IsDate(start) THEN Strftime(start)
                                     ELSE start,
                     dataFinal |-> Strftime(end1)])

\* requests.get(api_url), raise_for_status() and response.json(): the
\* answer is the server's
_get_json_results(api_url, _response) ==
    IF _response.status = "ok" THEN Return(_response.json)
    ELSE Raise("HTTPError")

\* float(string) of a decimal string, a string being <<"str", digits>>
Float(string) == string[2]

\* the keys data, datafim and valor become date, end_date and value
_fix_api_results(json_result) ==
    [k \in 1..Len(json_result) |->
        IF "datafim" \in DOMAIN json_result[k]
        THEN IndicesRecord3(Strptime(json_result[k].data),
                            Strptime(json_result[k].datafim),
                            Float(json_result[k].valor))
        ELSE IndicesRecord(Strptime(json_result[k].data),
                           Float(json_result[k].valor))]

\* Python position of the first record with record.date >= start, or
\* len(records) when there is none
RECURSIVE FirstNotBefore(_, _, _)
FirstNotBefore(records, start, index) ==
    IF index = Len(records) THEN index
    ELSE IF DateLE(start, records[index + 1].date) THEN index
    ELSE FirstNotBefore(records, start, index + 1)

RECURSIVE PopAfterOrOn(_, _)
\* variant: records dated end are popped too
PopAfterOrOn(records, end) ==
    IF records = <<>> THEN records
    ELSE IF DateLE(end, records[Len(records)].date)
         THEN PopAfterOrOn(SubSeq(records, 1, Len(records) - 1), end)
         ELSE records

\* the loop over new_records_array[::-1]: records are popped from the end
\* as long as their date is after end
RECURSIVE PopAfter(_, _)
PopAfter(records, end) ==
    IF records = <<>> THEN records
    ELSE IF DateLT(end, records[Len(records)].date)
         THEN PopAfter(SubSeq(records, 1, Len(records) - 1), end)
         ELSE records

\* variant: records before start are kept
_rm_records_outside_range_keeps_all(start, end, records_array) ==
    IF IsDate(end) THEN PopAfter(records_array, end) ELSE records_array

_rm_records_outside_range(start, end, records_array) ==
    LET new_records_array ==
            IF IsDate(start)
            THEN Slice(records_array,
                       FirstNotBefore(records_array, start, 0),
                       Len(records_array))
            ELSE records_array
    IN  IF IsDate(end) THEN PopAfter(new_records_array, end)
        ELSE new_records_array

\* FinancialIndicesApi.set_indices_records({cod: (start, end)}) on a new
\* instance: value is the series stored for cod, requested the urls that
\* were requested from the server
set_indices_records(cod, start, end, _today, _response) ==
    LET url == _create_api_url(cod, start, end, _today)
    IN  IF url.raised # "None"
        THEN [raised |-> url.raised, requested |-> <<>>]
        ELSE LET json_response == _get_json_results(url.value, _response)
             IN  IF json_response.raised # "None"
                 THEN [raised |-> json_response.raised,
                       requested |-> <<url.value>>]
                 ELSE [raised |-> "None",
                       value |-> _rm_records_outside_range(start, end,
                                     _fix_api_results(json_response.value)),
                       requested |-> <<url.value>>]

(***************************************************************************)
(* Strategy C, code 433                                                    *)
(***************************************************************************)
\* code of the IPCA-15 series
Ipca15 == 7478

\* date.replace(day=1)
FirstOfMonth(date) == Date(date.year, date.month, 1)

\* the year is not advanced after December
_ipca_from_15_expander_same_year(records, _today, _response) ==
    IF records = <<>> THEN Return(<<>>)
    ELSE LET last_date == FirstOfMonth(records[Len(records)].date)
             last_value == records[Len(records)].value
             next_month == get_next_month(last_date.month).value
             new_date == Date(last_date.year, next_month, last_date.day)
             api == set_indices_records(Ipca15, last_date, None, _today,
                                        _response)
         IN  IF api.raised # "None" THEN Raise(api.raised)
             ELSE IF api.value # <<>> /\ api.value[1].date = last_date
                  THEN Return(records \o
                           <<IndicesRecord(new_date, api.value[1].value)>>)
                  ELSE Return(records \o
                           <<IndicesRecord(new_date, last_value)>>)

\* variant: the empty input is not returned at once
_ipca_from_15_expander_unguarded(records, _today, _response) ==
    IF records = <<>> THEN Raise("IndexError")
    ELSE LET last_date == FirstOfMonth(records[Len(records)].date)
             last_value == records[Len(records)].value
             next_month == get_next_month(last_date.month).value
             next_year == IF next_month # 1 THEN last_date.year
                          ELSE last_date.year + 1
             new_date == Date(next_year, next_month, last_date.day)
             api == set_indices_records(Ipca15, last_date, None, _today,
                                        _response)
         IN  IF api.raised # "None" THEN Raise(api.raised)
             ELSE IF api.value # <<>> /\ api.value[1].date = last_date
                  THEN Return(records \o
                           <<IndicesRecord(new_date, api.value[1].value)>>)
                  ELSE Return(records \o
                           <<IndicesRecord(new_date, last_value)>>)

\* variant: the first record of the proxy series is used whatever its date
_ipca_from_15_expander_first_record(records, _today, _response) ==
    IF records = <<>> THEN Return(<<>>)
    ELSE LET last_date == FirstOfMonth(records[Len(records)].date)
             last_value == records[Len(records)].value
             next_month == get_next_month(last_date.month).value
             next_year == IF next_month # 1 THEN last_date.year
                          ELSE last_date.year + 1
             new_date == Date(next_year, next_month, last_date.day)
             api == set_indices_records(Ipca15, last_date, None, _today,
                                        _response)
         IN  IF api.raised # "None" THEN Raise(api.raised)
             ELSE IF api.value # <<>>
                  THEN Return(records \o
                           <<IndicesRecord(new_date, api.value[1].value)>>)
                  ELSE Return(records \o
                           <<IndicesRecord(new_date, last_value)>>)

_ipca_from_15_expander(records, _today, _response) ==
    IF records = <<>> THEN Return(<<>>)
    ELSE LET last_date == FirstOfMonth(records[Len(records)].date)
             last_value == records[Len(records)].value
             next_month == get_next_month(last_date.month).value
             next_year == IF next_month # 1 THEN last_date.year
                          ELSE last_date.year + 1
             new_date == Date(next_year, next_month, last_date.day)
             api == set_indices_records(Ipca15, last_date, None, _today,
                                        _response)
         IN  IF api.raised # "None" THEN Raise(api.raised)
             ELSE IF api.value # <<>> /\ api.value[1].date = last_date
                  THEN Return(records \o
                           <<IndicesRecord(new_date, api.value[1].value)>>)
                  ELSE Return(records \o
                           <<IndicesRecord(new_date, last_value)>>)

\* the urls requested from the server by _ipca_from_15_expander
IpcaRequests(records, _today, _response) ==
    IF records = <<>> THEN <<>>
    ELSE set_indices_records(Ipca15,
                             FirstOfMonth(records[Len(records)].date), None,
                             _today, _response).requested

\* the dates searched in the calendar by _daily_workday_indices_expander
DailyLookups(records) ==
    IF records = <<>> THEN <<>> ELSE <<records[Len(records)].date>>

(***************************************************************************)
(* Dispatch on the code of the series                                      *)
(***************************************************************************)
Selic == 11

Cdi == 12

Tr == 226

Ipca == 433

\* the keys of _expander_methods_mapping
KnownCodes == {Selic, Cdi, Tr, Ipca}

\* variant: a code without a method is handled by the last method
get_expanded_indicators_no_check(_workdays, code, records, _today, _response) ==
    IF code \in {Selic, Cdi}
    THEN _daily_workday_indices_expander(_workdays, records)
    ELSE IF code = Tr THEN _daily_three_field_indices_expander(records)
    ELSE _ipca_from_15_expander(records, _today, _response)

get_expanded_indicators(_workdays, code, records, _today, _response) ==
    IF code \notin KnownCodes THEN Raise("KeyError")
    ELSE IF code \in {Selic, Cdi}
         THEN _daily_workday_indices_expander(_workdays, records)
    ELSE IF code = Tr THEN _daily_three_field_indices_expander(records)
    ELSE _ipca_from_15_expander(records, _today, _response)

\* the calendar lookups and the server requests of the call
ExpanderLookups(code, records) ==
    IF code \in {Selic, Cdi} THEN DailyLookups(records) ELSE <<>>

ExpanderRequests(code, records, _today, _response) ==
    IF code = Ipca THEN IpcaRequests(records, _today, _response) ELSE <<>>

(***************************************************************************)
(* Calls of the expander.  Series of the codes 11 and 12 are those of      *)
(* Strategy A and series of code 226 those of Strategy B.  A series of     *)
(* code 433 ends in one of ProxyMonths + 2 consecutive months; the server  *)
(* answers the proxy request with any run of consecutive records of the    *)
(* monthly IPCA-15 series of ProxyMonths months, or with an HTTP error.    *)
(***************************************************************************)
\* number of months of the IPCA-15 series held by the server
ProxyMonths == 4

\* the month of the first-of-month date, k months later
RECURSIVE AddMonths(_, _)
AddMonths(date, k) ==
    IF k = 0 THEN date
    ELSE AddMonths(IF date.month = 12 THEN Date(date.year + 1, 1, 1)
                   ELSE Date(date.year, date.month + 1, 1), k - 1)

\* first record of the IPCA-15 series of the server
FirstProxyMonth == Date(2000, 11, 1)

\* the entries of the server's series, as JSON
ProxyJson ==
    [k \in 1..ProxyMonths |->
        [data |-> Strftime(AddMonths(FirstProxyMonth, k - 1)),
         valor |-> <<"str", 10 + k>>]]

ServerResponses ==
    {[status |-> "HTTPError"], [status |-> "ok", json |-> <<>>]}
        \cup { [status |-> "ok", json |-> SubSeq(ProxyJson, i, j)] :
                   i \in 1..ProxyMonths, j \in 1..ProxyMonths }

\* dates of the last record of a series of code 433: the first, the
\* fifteenth and the last day of the months from one month before to one
\* month after the server's series
IpcaDates ==
    UNION { LET first == AddMonths(Date(2000, 10, 1), k)
            IN  {first, Date(first.year, first.month, 15),
                 Date(first.year, first.month,
                      DaysInMonth(first.year, first.month))} :
            k \in 0..(ProxyMonths + 1) }

TodayArgs ==
    {Date(2000, 12, 31), Date(2001, 1, 1), Date(2001, 1, 20),
     Date(2001, 2, 1)}

\* the record of the month before record r, with another value
PreviousMonth(r) ==
    IndicesRecord(IF r.date.month = 1 THEN Date(r.date.year - 1, 12, 1)
                  ELSE Date(r.date.year, r.date.month - 1, 1),
                  3 - r.value)

\* codes without an expander method: 0 and the code of IPCA-15
UnknownCodes == {0, Ipca15}

\* a few series of each shape for the codes without a method
AnySeries ==
    {<<>>,
     <<IndicesRecord(FirstWorkday, 1)>>,
     <<IndicesRecord(Date(2000, 12, 29), 1), IndicesRecord(FirstWorkday, 2)>>,
     <<IndicesRecord3(Date(1993, 1, 28), Date(1993, 2, 28), 1)>>,
     <<IndicesRecord(Date(2001, 1, 1), 1)>>}

InitExpander ==
    /\ CalendarLoaded
    /\ StoreEmpty
    /\ MainNotStarted
    /\ pc = "ready"
    /\ op = "none"
    /\ array = <<>>
    /\ start_date = None
    /\ end_date = None
    /\ extra_days = DefaultExtraDays
    /\ month_arg = None
    /\ indices_code \in KnownCodes \cup UnknownCodes
    /\ \/ /\ indices_code \in {Selic, Cdi}
          /\ \/ financial_records = <<>>
             \/ \E r \in TwoFieldRecords : financial_records = <<r>>
             \/ \E r \in TwoFieldRecords, q \in TwoFieldRecords :
                    financial_records = <<q, r>>
          /\ today = Date(2001, 1, 20)
          /\ response = [status |-> "ok", json |-> ProxyJson]
       \/ /\ indices_code = Tr
          /\ \/ financial_records = <<>>
             \/ \E d \in StartDates : \E e \in EndDates(d) :
                    LET r == IndicesRecord3(d, e, 1)
                    IN  \/ financial_records = <<r>>
                        \/ financial_records = <<Previous(r), r>>
          /\ today = Date(2001, 1, 20)
          /\ response = [status |-> "ok", json |-> ProxyJson]
       \/ /\ indices_code = Ipca
          /\ \/ financial_records = <<>>
             \/ \E d \in IpcaDates, v \in Values :
                    LET r == IndicesRecord(d, v)
                    IN  \/ financial_records = <<r>>
                        \/ financial_records = <<PreviousMonth(r), r>>
          /\ today \in TodayArgs
          /\ response \in ServerResponses
       \/ /\ indices_code \in UnknownCodes
          /\ financial_records \in AnySeries
          /\ today \in TodayArgs
          /\ response \in ServerResponses
    /\ lookups = <<>>
    /\ requests = <<>>
    /\ result = None

\* variant: the input list is extended in place and returned
GetExpandedIndicatorsInPlace ==
    /\ pc = "ready"
    /\ result' = get_expanded_indicators(workdays, indices_code,
                                         financial_records, today, response)
    /\ financial_records' = IF result'.raised = "None" THEN result'.value
                            ELSE financial_records
    /\ lookups' = ExpanderLookups(indices_code, financial_records)
    /\ requests' = ExpanderRequests(indices_code, financial_records, today,
                                    response)
    /\ pc' = "done"
    /\ op' = "get_expanded_indicators"
    /\ UNCHANGED <<calendarVars, storeVars, mainVars>>
    /\ UNCHANGED <<workdays, array, start_date, end_date, extra_days,
                   month_arg, indices_code, today, response>>

GetExpandedIndicators ==
    /\ pc = "ready"
    /\ result' = get_expanded_indicators(workdays, indices_code,
                                         financial_records, today, response)
    /\ lookups' = ExpanderLookups(indices_code, financial_records)
    /\ requests' = ExpanderRequests(indices_code, financial_records, today,
                                    response)
    /\ pc' = "done"
    /\ op' = "get_expanded_indicators"
    /\ UNCHANGED <<calendarVars, storeVars, mainVars>>
    /\ UNCHANGED <<workdays, array, start_date, end_date, extra_days,
                   financial_records, month_arg, indices_code, today,
                   response>>

NextExpander == GetExpandedIndicators

SpecExpander == InitExpander /\ [][NextExpander]_vars

(***************************************************************************)
(* Calls of Strategy C alone, on the series of code 433.                   *)
(***************************************************************************)
InitIpca ==
    /\ CalendarLoaded
    /\ StoreEmpty
    /\ MainNotStarted
    /\ pc = "ready"
    /\ op = "none"
    /\ array = <<>>
    /\ start_date = None
    /\ end_date = None
    /\ extra_days = DefaultExtraDays
    /\ month_arg = None
    /\ indices_code = Ipca
    /\ \/ financial_records = <<>>
       \/ \E d \in IpcaDates, v \in Values :
              LET r == IndicesRecord(d, v)
              IN  \/ financial_records = <<r>>
                  \/ financial_records = <<PreviousMonth(r), r>>
    /\ today \in TodayArgs
    /\ response \in ServerResponses
    /\ lookups = <<>>
    /\ requests = <<>>
    /\ result = None

IpcaFrom15Expander ==
    /\ pc = "ready"
    /\ result' = _ipca_from_15_expander(financial_records, today, response)
    /\ requests' = IpcaRequests(financial_records, today, response)
    /\ pc' = "done"
    /\ op' = "_ipca_from_15_expander"
    /\ UNCHANGED <<calendarVars, storeVars, mainVars>>
    /\ UNCHANGED <<workdays, array, start_date, end_date, extra_days,
                   financial_records, month_arg, indices_code, today,
                   response, lookups>>

NextIpca == IpcaFrom15Expander

SpecIpca == InitIpca /\ [][NextIpca]_vars

(***************************************************************************)
(* Calls of get_next_month on the integers of -MonthRange..MonthRange.     *)
(***************************************************************************)
MonthRange == 60

InitMonth ==
    /\ CalendarLoaded
    /\ StoreEmpty
    /\ MainNotStarted
    /\ pc = "ready"
    /\ op = "none"
    /\ array = <<>>
    /\ start_date = None
    /\ end_date = None
    /\ extra_days = DefaultExtraDays
    /\ financial_records = <<>>
    /\ month_arg \in (0 - MonthRange)..MonthRange
    /\ indices_code = None
    /\ today = None
    /\ response = None
    /\ lookups = <<>>
    /\ requests = <<>>
    /\ result = None

GetNextMonth ==
    /\ pc = "ready"
    /\ result' = get_next_month(month_arg)
    /\ pc' = "done"
    /\ op' = "get_next_month"
    /\ UNCHANGED <<calendarVars, storeVars, mainVars>>
    /\ UNCHANGED <<workdays, array, start_date, end_date, extra_days,
                   financial_records, month_arg, indices_code, today,
                   response, lookups, requests>>

NextMonth == GetNextMonth

SpecMonth == InitMonth /\ [][NextMonth]_vars

(***************************************************************************)
(* Life of the calendar: Workdays(...) is called with and without a path,  *)
(* on files of the right and of a wrong number of rows, and the instance   *)
(* is searched, indexed, iterated and used to extend series.               *)
(***************************************************************************)
\* bound on the number of runs of _load_workdays
MaxLoads == 2

OtherPath == Path("other.csv")

Paths == {DefaultPath, OtherPath}

\* rows with the entries at positions i and j exchanged
Swapped(rows, i, j) ==
    [k \in 1..Len(rows) |->
        IF k = i THEN rows[j] ELSE IF k = j THEN rows[i] ELSE rows[k]]

\* contents of a csv file: workdays.csv, a file with one row less, one with
\* one row more, and files of the right number of rows with two rows
\* exchanged or with one row twice
FileContents ==
    {WorkdaysCsv,
     SubSeq(WorkdaysCsv, 1, Len(WorkdaysCsv) - 1),
     Append(WorkdaysCsv, Row(AddDays(FirstWorkday, CalendarSpan + 7))),
     Swapped(WorkdaysCsv, 3, 4),
     [k \in 1..Len(WorkdaysCsv) |->
         IF k = 4 THEN WorkdaysCsv[3] ELSE WorkdaysCsv[k]]}

\* dates searched in the calendar
ProbeDates == { AddDays(FirstWorkday, k) : k \in (0 - 1)..6 }

\* series handed to Strategy A
ProbeSeries ==
    {<<>>} \cup { <<IndicesRecord(d, 1)>> : d \in ProbeDates }

\* wrapper._instance
Instance ==
    IF IsNone(workdays) THEN None
    ELSE [_workdays_path |-> workdays_path, _workdays |-> workdays]

InitCalendar ==
    /\ files \in [Paths -> FileContents]
    /\ workdays = None
    /\ workdays_path = None
    /\ loads = 0
    /\ path_arg = None
    /\ StoreEmpty
    /\ MainNotStarted
    /\ pc = "ready"
    /\ op = "none"
    /\ array = <<>>
    /\ start_date = None
    /\ end_date = None
    /\ extra_days = DefaultExtraDays
    /\ financial_records = <<>>
    /\ month_arg = None
    /\ indices_code = None
    /\ today = None
    /\ response = None
    /\ lookups = <<>>
    /\ requests = <<>>
    /\ result = None

\* Workdays(workdays_path) or Workdays()
NewWorkdays ==
    /\ loads < MaxLoads
    /\ \E workdays_path_arg \in Paths \cup {None} :
           LET new == singleton(Instance, workdays_path_arg, files)
           IN  /\ path_arg' = workdays_path_arg
               /\ result' = new
               /\ loads' = loads + new.loads
               /\ IF new.raised = "None"
                  THEN /\ workdays' = new.value._workdays
                       /\ workdays_path' = new.value._workdays_path
                  ELSE UNCHANGED <<workdays, workdays_path>>
    /\ pc' = "done"
    /\ op' = "Workdays"
    /\ UNCHANGED <<storeVars, mainVars>>
    /\ UNCHANGED <<files, array, start_date, end_date, extra_days,
                   financial_records, month_arg, indices_code, today,
                   response, lookups, requests>>

\* the arguments of the calls below are those of the last call
CalendarCall(name, date, days, records, outcome) ==
    /\ ~IsNone(workdays)
    /\ result' = outcome
    /\ pc' = "done"
    /\ op' = name
    /\ start_date' = date
    /\ extra_days' = days
    /\ financial_records' = records
    /\ UNCHANGED <<storeVars, mainVars>>
    /\ UNCHANGED <<files, workdays, workdays_path, loads, path_arg, array,
                   end_date, month_arg, indices_code, today, response, lookups,
                   requests>>

\* workdays.binary_search(workdays._workdays, date)
CalendarBinarySearch ==
    \E date \in ProbeDates :
        CalendarCall("binary_search", date, DefaultExtraDays, <<>>,
                     binary_search(workdays, date))

\* workdays.get_extra_workdays(date, days)
CalendarGetExtraWorkdays ==
    \E date \in ProbeDates, days \in {1, DefaultExtraDays} :
        CalendarCall("get_extra_workdays", date, days, <<>>,
                     get_extra_workdays(workdays, date, days))

\* workdays[item] for the positions of the calendar and one behind
CalendarGetItem ==
    \E item \in {0, 1, _number_workdays - 1, _number_workdays} :
        CalendarCall("__getitem__", None, item, <<>>,
                     IF item < Len(workdays) THEN Return(workdays[item + 1])
                     ELSE Raise("IndexError"))

\* tuple(iter(workdays))
CalendarIter ==
    CalendarCall("__iter__", None, DefaultExtraDays, <<>>, Return(workdays))

\* len(workdays)
CalendarLen ==
    CalendarCall("__len__", None, DefaultExtraDays, <<>>,
                 Return(_number_workdays))

\* the expander, whose calendar is Workdays(), extends a series of Selic
CalendarExtend ==
    \E records \in ProbeSeries :
        CalendarCall("_daily_workday_indices_expander", None,
                     DefaultExtraDays, records,
                     _daily_workday_indices_expander(workdays, records))

NextCalendar ==
    \/ NewWorkdays
    \/ CalendarBinarySearch
    \/ CalendarGetExtraWorkdays
    \/ CalendarGetItem
    \/ CalendarIter
    \/ CalendarLen
    \/ CalendarExtend

SpecCalendar == InitCalendar /\ [][NextCalendar]_vars

(***************************************************************************)
(* Calls of set_expanded_indices in a row: the expander keeps the          *)
(* extended series of each code.                                           *)
(***************************************************************************)
\* dict[key] = value
DictSet(dict, key, value) ==
    [k \in DOMAIN dict \cup {key} |-> IF k = key THEN value ELSE dict[k]]

\* variant: the entry of the code is emptied before the method is called
set_expanded_indices_resets(_store, _workdays, code, records, _today, _response) ==
    LET expanded == get_expanded_indicators(_workdays, code, records,
                                            _today, _response)
    IN  IF expanded.raised # "None"
        THEN [raised |-> expanded.raised,
              store |-> DictSet(_store, code, <<>>)]
        ELSE [raised |-> "None", value |-> None,
              store |-> DictSet(_store, code, expanded.value)]

\* IndicesExpander.set_expanded_indices: store is
\* _expanded_indices_records after the call
set_expanded_indices(_store, _workdays, code, records, _today, _response) ==
    LET expanded == get_expanded_indicators(_workdays, code, records,
                                            _today, _response)
    IN  IF expanded.raised # "None"
        THEN [raised |-> expanded.raised, store |-> _store]
        ELSE [raised |-> "None", value |-> None,
              store |-> DictSet(_store, code, expanded.value)]

\* a call: code, series, today and the answer of the server
StoreCall(code, records, _today, _response) ==
    [code |-> code, records |-> records, today |-> _today,
     response |-> _response]

\* series of Strategy A: empty, ending on a workday, ending on a Saturday
StoreDailySeries ==
    {<<>>, <<IndicesRecord(FirstWorkday, 1)>>,
     <<IndicesRecord(FirstWorkday, 1), IndicesRecord(AddDays(FirstWorkday, 1), 2)>>,
     <<IndicesRecord(AddDays(FirstWorkday, 4), 1)>>}

\* series of Strategy B: one month apart, refused at the first step, and
\* refused at the third step, when the date has caught up with the end date
StoreThreeFieldSeries ==
    {<<IndicesRecord3(Date(1993, 1, 28), Date(1993, 2, 28), 1)>>,
     <<IndicesRecord3(Date(1993, 2, 5), Date(1993, 2, 5), 1)>>,
     <<IndicesRecord3(Date(1993, 1, 30), Date(1993, 2, 1), 1)>>}

StoreCalls ==
    { StoreCall(c, r, Date(2001, 1, 20),
                [status |-> "ok", json |-> ProxyJson]) :
          c \in {Selic, Cdi}, r \in StoreDailySeries }
    \cup { StoreCall(Tr, r, Date(2001, 1, 20),
                     [status |-> "ok", json |-> ProxyJson]) :
               r \in StoreThreeFieldSeries }
    \cup { StoreCall(Ipca, <<IndicesRecord(d, 1)>>, t, a) :
               d \in {Date(2000, 12, 15), Date(2001, 2, 15)},
               t \in {Date(2001, 1, 20)},
               a \in {[status |-> "HTTPError"],
                      [status |-> "ok", json |-> ProxyJson]} }
    \cup { StoreCall(c, r, Date(2001, 1, 20),
                     [status |-> "ok", json |-> ProxyJson]) :
               c \in UnknownCodes, r \in AnySeries }

InitStore ==
    /\ CalendarLoaded
    /\ StoreEmpty
    /\ MainNotStarted
    /\ pc = "ready"
    /\ op = "none"
    /\ array = <<>>
    /\ start_date = None
    /\ end_date = None
    /\ extra_days = DefaultExtraDays
    /\ financial_records = <<>>
    /\ month_arg = None
    /\ indices_code = None
    /\ today = None
    /\ response = None
    /\ lookups = <<>>
    /\ requests = <<>>
    /\ result = None

SetExpandedIndices ==
    /\ \E call \in StoreCalls :
           LET set == set_expanded_indices(expanded_indices_records,
                                           workdays, call.code, call.records,
                                           call.today, call.response)
           IN  /\ indices_code' = call.code
               /\ financial_records' = call.records
               /\ today' = call.today
               /\ response' = call.response
               /\ result' = IF set.raised = "None" THEN Return(set.value)
                            ELSE Raise(set.raised)
               /\ expanded_indices_records' = set.store
               /\ lookups' = ExpanderLookups(call.code, call.records)
               /\ requests' = ExpanderRequests(call.code, call.records,
                                               call.today, call.response)
    /\ pc' = "done"
    /\ op' = "set_expanded_indices"
    /\ UNCHANGED <<calendarVars, mainVars>>
    /\ UNCHANGED <<workdays, array, start_date, end_date, extra_days,
                   month_arg>>

NextStore == SetExpandedIndices

SpecStore == InitStore /\ [][NextStore]_vars

(***************************************************************************)
(* Calls of _rm_records_outside_range: the bounds are None or one of       *)
(* TrimDates and the records are all sequences of up to MaxRecords         *)
(* records dated in TrimDates, in any order; the value of a record is its  *)
(* position in the input.                                                  *)
(***************************************************************************)
MaxRecords == 3

TrimDates == { AddDays(Date(1986, 6, 4), k) : k \in 0..3 }

InitTrim ==
    /\ CalendarLoaded
    /\ StoreEmpty
    /\ MainNotStarted
    /\ pc = "ready"
    /\ op = "none"
    /\ array = <<>>
    /\ start_date \in TrimDates \cup {None}
    /\ end_date \in TrimDates \cup {None}
    /\ extra_days = DefaultExtraDays
    /\ \E n \in 0..MaxRecords :
           \E dates \in [1..n -> TrimDates] :
               financial_records = [k \in 1..n |-> IndicesRecord(dates[k], k)]
    /\ month_arg = None
    /\ indices_code = None
    /\ today = None
    /\ response = None
    /\ lookups = <<>>
    /\ requests = <<>>
    /\ result = None

RmRecordsOutsideRange ==
    /\ pc = "ready"
    /\ result' = Return(_rm_records_outside_range(start_date, end_date,
                                                  financial_records))
    /\ pc' = "done"
    /\ op' = "_rm_records_outside_range"
    /\ UNCHANGED <<calendarVars, storeVars, mainVars>>
    /\ UNCHANGED <<workdays, array, start_date, end_date, extra_days,
                   financial_records, month_arg, indices_code, today,
                   response, lookups, requests>>

NextTrim == RmRecordsOutsideRange

SpecTrim == InitTrim /\ [][NextTrim]_vars

(***************************************************************************)
(* _create_api_url applied to every pair of bounds: a date or None each,   *)
(* on a day that is one of the dates.                                      *)
(***************************************************************************)
UrlDates ==
    {Date(1989, 9, 29), Date(2010, 4, 21), Date(2010, 4, 22),
     Date(2010, 5, 1), Date(2011, 1, 1), Date(2019, 5, 12)}

UrlCodes == {Cdi, Ipca15}

InitUrl ==
    /\ CalendarLoaded
    /\ StoreEmpty
    /\ MainNotStarted
    /\ pc = "ready"
    /\ op = "none"
    /\ array = <<>>
    /\ start_date \in UrlDates \cup {None}
    /\ end_date \in UrlDates \cup {None}
    /\ extra_days = DefaultExtraDays
    /\ financial_records = <<>>
    /\ month_arg = None
    /\ indices_code \in UrlCodes
    /\ today \in UrlDates
    /\ response = None
    /\ lookups = <<>>
    /\ requests = <<>>
    /\ result = None

CreateApiUrl ==
    /\ pc = "ready"
    /\ result' = _create_api_url(indices_code, start_date, end_date, today)
    /\ pc' = "done"
    /\ op' = "_create_api_url"
    /\ UNCHANGED <<calendarVars, storeVars, mainVars>>
    /\ UNCHANGED <<workdays, array, start_date, end_date, extra_days,
                   financial_records, month_arg, indices_code, today,
                   response, lookups, requests>>

NextUrl == CreateApiUrl

SpecUrl == InitUrl /\ [][NextUrl]_vars

(***************************************************************************)
(* main: the update loop over the working codes.  The workbook is the      *)
(* metadata sheet, indices_dates, and the rows below the headers of the    *)
(* sheet of each code, worksheets.  The 1,301 percentage columns of the    *)
(* sheet of code 12 are computed from the value of the row and are left    *)
(* out.  An exception that main does not catch ends the program.           *)
(***************************************************************************)
working_indices == <<Selic, Cdi, Tr, Ipca>>

\* FinancialIndicesApi.get_latest_date
get_latest_date(_indices_records, code) ==
    IF code \notin DOMAIN _indices_records THEN None
    ELSE IF _indices_records[code] = <<>> THEN None
    ELSE _indices_records[code][Len(_indices_records[code])].date

\* IndicesWorkbook.get_last_indices_date
get_last_indices_date(_indices_dates, code) ==
    IF code \in DOMAIN _indices_dates THEN _indices_dates[code] ELSE None

\* wb_last_date == api_last_date, of dates or None
SameDate(date1, date2) ==
    IF IsNone(date1) \/ IsNone(date2) THEN IsNone(date1) /\ IsNone(date2)
    ELSE date1 = date2

\* the row of a record in the sheet of the code
_format_record(code, record) ==
    IF code = Ipca
    THEN <<record.date.year, record.date.month, record.value>>
    ELSE IF code = Tr THEN <<record.date, record.end_date, record.value>>
    ELSE <<record.date, record.value>>

FormatRecords(code, records) ==
    [k \in 1..Len(records) |-> _format_record(code, records[k])]

\* date_on_cell of a row of the sheet of the code
DateOnCell(code, cells) ==
    IF code = Ipca THEN Date(cells[1], cells[2], 1) ELSE cells[1]

\* the loop of _get_first_row from sheet row `row` upwards; rows holds the
\* sheet rows 2, 3, ...
RECURSIVE _get_first_row(_, _, _, _)
_get_first_row(code, rows, first_date, row) ==
    IF row <= 1 THEN 1
    ELSE LET date_on_cell == DateOnCell(code, rows[row - 1])
         IN  IF date_on_cell = first_date THEN row
             ELSE IF DateLT(date_on_cell, first_date) THEN row + 1
             ELSE _get_first_row(code, rows, first_date, row - 1)

\* WorksheetWriter._write_records: the rows of the sheet afterwards.  An
\* empty list of records raises IndexError, which is not caught.
_write_records(code, rows, records) ==
    IF records = <<>> THEN Raise("IndexError")
    ELSE LET first_row ==
                 _get_first_row(code, rows, records[1].date, Len(rows) + 1)
             kept == IF first_row = 1 THEN 0 ELSE first_row - 2
         IN  Return(SubSeq(rows, 1, kept) \o FormatRecords(code, records))

\* the rows of the sheet of the code, which is created when missing
_create_sheet(_worksheets, code) ==
    IF code \in DOMAIN _worksheets THEN _worksheets[code] ELSE <<>>

\* variant: the date of the last row written is recorded as the last date
write_records_last_row(_worksheets, _indices_dates, code, records, last_non_extended_date) ==
    LET written == _write_records(code, _create_sheet(_worksheets, code),
                                  records)
    IN  IF written.raised # "None" THEN Raise(written.raised)
        ELSE [raised |-> "None",
              worksheets |-> DictSet(_worksheets, code, written.value),
              indices_dates |-> DictSet(_indices_dates, code,
                                        records[Len(records)].date)]

write_records(_worksheets, _indices_dates, code, records, last_non_extended_date) ==
    LET written == _write_records(code, _create_sheet(_worksheets, code),
                                  records)
    IN  IF written.raised # "None" THEN Raise(written.raised)
        ELSE [raised |-> "None",
              worksheets |-> DictSet(_worksheets, code, written.value),
              indices_dates |-> DictSet(_indices_dates, code,
                                        last_non_extended_date)]

\* the day of the run
MainToday == Date(2001, 1, 20)

\* number of records of each series of the server
MainRecords == 3

\* the series of the server, as JSON: consecutive workdays of the daily
\* series, consecutive months of the monthly one
DailyJson ==
    [k \in 1..MainRecords |->
        [data |-> Strftime(AddDays(FirstWorkday, k - 1)),
         valor |-> <<"str", k>>]]

TrJson ==
    [k \in 1..MainRecords |->
        [data |-> Strftime(AddDays(FirstWorkday, k - 1)),
         datafim |-> Strftime(AddDays(Date(2001, 2, 2), k - 1)),
         valor |-> <<"str", k>>]]

IpcaJson ==
    [k \in 1..MainRecords |->
        [data |-> Strftime(AddMonths(Date(2000, 10, 1), k - 1)),
         valor |-> <<"str", k>>]]

ServerJson(code) ==
    IF code = Tr THEN TrJson ELSE IF code = Ipca THEN IpcaJson
    ELSE DailyJson

\* the rows of the sheet of the code after an earlier run that found the
\* first k records of the series: the later rows are synthetic
RowsOfEarlierRun(code, k) ==
    LET records == _fix_api_results(ServerJson(code))
    IN  FormatRecords(code,
            [j \in 1..Len(records) |->
                IF j <= k THEN records[j]
                ELSE [records[j] EXCEPT !.value = records[k].value]])

\* what a run finds for a code: the last date of the metadata sheet (None
\* when the code is not there), the rows of its sheet and the answer of
\* the server.  In turn: a new workbook, a workbook that is up to date, a
\* workbook one record behind, a server that fails, a server whose series
\* ends before the last date of the workbook, a server without records.
Situations(code) ==
    LET json == ServerJson(code)
        records == _fix_api_results(json)
        n == Len(records)
    IN  {[wb_last_date |-> None, rows |-> <<>>,
          response |-> [status |-> "ok", json |-> json]],
         [wb_last_date |-> records[n].date,
          rows |-> RowsOfEarlierRun(code, n),
          response |-> [status |-> "ok", json |-> json]],
         [wb_last_date |-> records[n - 1].date,
          rows |-> RowsOfEarlierRun(code, n - 1),
          response |-> [status |-> "ok", json |-> json]],
         [wb_last_date |-> None, rows |-> <<>>,
          response |-> [status |-> "HTTPError"]],
         [wb_last_date |-> records[n].date,
          rows |-> RowsOfEarlierRun(code, n),
          response |-> [status |-> "ok", json |-> SubSeq(json, 1, n - 1)]],
         [wb_last_date |-> None, rows |-> <<>>,
          response |-> [status |-> "ok", json |-> <<>>]]}

\* the codes found in the workbook of a situation
InWorkbook(found) ==
    { code \in DOMAIN found : ~IsNone(found[code].wb_last_date) }

InitMain ==
    /\ CalendarLoaded
    /\ StoreEmpty
    /\ pc = "ready"
    /\ op = "none"
    /\ array = <<>>
    /\ start_date = None
    /\ end_date = None
    /\ extra_days = DefaultExtraDays
    /\ financial_records = <<>>
    /\ month_arg = None
    /\ indices_code = None
    /\ today = MainToday
    /\ response = None
    /\ lookups = <<>>
    /\ requests = <<>>
    /\ result = None
    /\ main_pc = "loop"
    /\ need_update = FALSE
    /\ saves = 0
    /\ api_records = <<>>
    /\ processed = <<>>
    /\ \E s11 \in Situations(Selic), s12 \in Situations(Cdi),
          s226 \in Situations(Tr), s433 \in Situations(Ipca) :
           LET found == (Selic :> s11) @@ (Cdi :> s12) @@ (Tr :> s226)
                            @@ (Ipca :> s433)
           IN  /\ indices_dates =
                      [code \in InWorkbook(found) |->
                          found[code].wb_last_date]
               /\ worksheets =
                      [code \in InWorkbook(found) |-> found[code].rows]
               /\ server =
                      [code \in DOMAIN found |-> found[code].response]
                          @@ (Ipca15 :> [status |-> "ok",
                                         json |-> ProxyJson])

\* the pass of the loop ends in an uncaught exception
Crash(exception) ==
    /\ main_pc' = "crashed"
    /\ result' = Raise(exception)
    /\ UNCHANGED processed

\* the pass of the loop ends; its local variables are kept
EndOfPass(code, wb_last_date, api_last_date, updated, expanded_indices) ==
    /\ processed' = Append(processed,
                           [indices_code |-> code,
                            wb_last_date |-> wb_last_date,
                            api_last_date |-> api_last_date,
                            updated |-> updated,
                            expanded_indices |-> expanded_indices])
    /\ UNCHANGED <<main_pc, result>>

\* one pass of the loop, for the next code of working_indices; each name
\* bound by \E is a local variable of main or a value returned to it
UpdateIndices ==
    /\ main_pc = "loop"
    /\ Len(processed) < Len(working_indices)
    /\ \E code \in {working_indices[Len(processed) + 1]} :
       \E wb_last_date \in {get_last_indices_date(indices_dates, code)} :
       \E fetched \in {set_indices_records(code, wb_last_date, None, today,
                                           server[code])} :
           IF fetched.raised # "None"
           THEN /\ Crash(fetched.raised)
                /\ UNCHANGED <<api_records, need_update, worksheets,
                               indices_dates>>
           ELSE
           \E records \in {DictSet(api_records, code, fetched.value)} :
           \E api_last_date \in {get_latest_date(records, code)} :
               /\ api_records' = records
               /\ IF SameDate(wb_last_date, api_last_date)
                  THEN /\ EndOfPass(code, wb_last_date, api_last_date,
                                    FALSE, <<>>)
                       /\ UNCHANGED <<need_update, worksheets, indices_dates>>
                  ELSE
                  /\ need_update' = TRUE
                  /\ \E expanded \in
                         {get_expanded_indicators(workdays, code,
                              records[code], today, server[Ipca15])} :
                         IF expanded.raised # "None"
                         THEN /\ Crash(expanded.raised)
                              /\ UNCHANGED <<worksheets, indices_dates>>
                         ELSE
                         \E written \in
                             {write_records(worksheets, indices_dates, code,
                                            expanded.value, api_last_date)} :
                             IF written.raised # "None"
                             THEN /\ Crash(written.raised)
                                  /\ UNCHANGED <<worksheets, indices_dates>>
                             ELSE /\ worksheets' = written.worksheets
                                  /\ indices_dates' = written.indices_dates
                                  /\ EndOfPass(code, wb_last_date,
                                               api_last_date, TRUE,
                                               expanded.value)
    /\ UNCHANGED <<calendarVars, storeVars, saves, server>>
    /\ UNCHANGED <<workdays, array, start_date, end_date, extra_days,
                   financial_records, month_arg, indices_code, today,
                   response, lookups, requests, pc, op>>

\* the end of main: if need_update: workbook.save()
SaveWorkbook ==
    /\ main_pc = "loop"
    /\ Len(processed) = Len(working_indices)
    /\ saves' = IF need_update THEN saves + 1 ELSE saves
    /\ main_pc' = "done"
    /\ UNCHANGED <<calendarVars, storeVars, need_update, indices_dates,
                   worksheets, server, api_records, processed>>
    /\ UNCHANGED <<workdays, array, start_date, end_date, extra_days,
                   financial_records, month_arg, indices_code, today,
                   response, lookups, requests, pc, op, result>>

NextMain == UpdateIndices \/ SaveWorkbook

SpecMain == InitMain /\ [][NextMain]_vars

(***************************************************************************)
(* Vocabulary of the properties                                            *)
(***************************************************************************)
\* date is an entry of seq
Member(date, seq) == \E i \in 1..Len(seq) : seq[i] = date

\* the Python position of date in seq, by linear scan
PositionOf(date, seq) == (CHOOSE i \in 1..Len(seq) : seq[i] = date) - 1

StrictlyIncreasing(seq) ==
    \A i \in 1..(Len(seq) - 1) : DateLT(seq[i], seq[i + 1])

Min(a, b) == IF a < b THEN a ELSE b

CalledExtra == pc = "done" /\ op = "get_extra_workdays"

CalledSearch == pc = "done" /\ op = "binary_search"

(***************************************************************************)
(* Properties of the calendar                                              *)
(***************************************************************************)
\* C1: for every calendar member date and every extra_days <= 0,
\* get_extra_workdays(date, extra_days) returns an empty sequence.
C1_NonPositiveExtraDaysIsEmpty ==
    (CalledExtra /\ Member(start_date, workdays) /\ extra_days <= 0)
        => result = Return(<<>>)

\* C2: for a calendar member at position i of N entries and count >= 1,
\* get_extra_workdays returns exactly the entries at positions
\* i+1 .. min(i+count, N-1), in calendar order: count dates when that many
\* follow, otherwise all the remaining ones; they are strictly increasing
\* calendar members and start at the immediate successor of date.
C2_ExtraWorkdaysAreTheNextEntries ==
    (CalledExtra /\ Member(start_date, workdays) /\ extra_days >= 1)
        => LET i == PositionOf(start_date, workdays)
               N == Len(workdays)
               last == Min(i + extra_days, N - 1)
           IN  /\ result.raised = "None"
               /\ Len(result.value) = last - i
               /\ \A k \in 1..(last - i) :
                      result.value[k] = workdays[i + k + 1]
               /\ (N - 1 - i >= extra_days
                      => Len(result.value) = extra_days)
               /\ (N - 1 - i < extra_days
                      => Len(result.value) = N - 1 - i)
               /\ StrictlyIncreasing(result.value)
               /\ \A k \in 1..Len(result.value) :
                      /\ Member(result.value[k], workdays)
                      /\ DateLT(start_date, result.value[k])

\* a call that runs past the end of the calendar and returns a short,
\* non-empty sequence
C2_Witness ==
    /\ CalledExtra
    /\ extra_days >= 1
    /\ result.raised = "None"
    /\ Len(result.value) > 0
    /\ Len(result.value) < extra_days

\* C3: for a strictly increasing calendar, binary_search returns the
\* position i with calendar[i] = date when date is a member (first and last
\* entry included) and raises LookupError for every date that is not a
\* member, be it between two entries, below the first or above the last.
C3_BinarySearchFindsExactlyMembers ==
    CalledSearch
        => /\ StrictlyIncreasing(array)
           /\ IF Member(start_date, array)
              THEN /\ result.raised = "None"
                   /\ result.value \in 0..(Len(array) - 1)
                   /\ array[result.value + 1] = start_date
              ELSE result = Raise("LookupError")

\* the last entry of the whole calendar is found at the last position
C3_Witness ==
    /\ CalledSearch
    /\ Len(array) > 2
    /\ result.raised = "None"
    /\ result.value = Len(array) - 1
    /\ array[Len(array)] = start_date

(***************************************************************************)
(* Properties of Strategy A                                                *)
(***************************************************************************)
CalledDaily == pc = "done" /\ op = "_daily_workday_indices_expander"

LastRecord == financial_records[Len(financial_records)]

\* number of calendar entries that follow date, a calendar member
EntriesAfter(date) == Len(workdays) - 1 - PositionOf(date, workdays)

\* C4: for a non-empty input whose last date is a calendar member, the
\* output of Strategy A is the input followed by one synthetic record per
\* date of get_extra_workdays(lastDate, 30), in the same order, each with
\* the value of the last input record; with at least 30 business days
\* after lastDate the output has len(input) + 30 records.
C4_DailyAppendsExtraWorkdaysWithLastValue ==
    (CalledDaily /\ financial_records # <<>>
                 /\ Member(LastRecord.date, workdays))
        => LET n == Len(financial_records)
               extra == get_extra_workdays(workdays, LastRecord.date, 30)
           IN  /\ result.raised = "None"
               /\ extra.raised = "None"
               /\ Len(result.value) = n + Len(extra.value)
               /\ SubSeq(result.value, 1, n) = financial_records
               /\ \A k \in 1..Len(extra.value) :
                      /\ result.value[n + k].date = extra.value[k]
                      /\ result.value[n + k].value = LastRecord.value
                      /\ DOMAIN result.value[n + k] = {"date", "value"}
               /\ (EntriesAfter(LastRecord.date) >= 30
                      => Len(result.value) = n + 30)

\* a two-record input with two different values is extended by 30 records
C4_Witness ==
    /\ CalledDaily
    /\ Len(financial_records) = 2
    /\ financial_records[1].value # financial_records[2].value
    /\ result.raised = "None"
    /\ Len(result.value) = 32

\* C5: Strategy A raises LookupError, and returns no records, exactly when
\* the date of the last input record is not a calendar member; the dates of
\* earlier records are never looked up.
C5_DailyRaisesIffLastDateIsNoWorkday ==
    (CalledDaily /\ financial_records # <<>>)
        => /\ result.raised \in {"None", "LookupError"}
           /\ result.raised = "LookupError"
                 <=> ~Member(LastRecord.date, workdays)
           /\ result.raised = "LookupError" => DOMAIN result = {"raised"}
           /\ result.raised = "None"
                 => Len(result.value) >= Len(financial_records)

\* the first record lies outside the calendar, the last one is a member,
\* and the input is extended
C5_Witness ==
    /\ CalledDaily
    /\ Len(financial_records) = 2
    /\ ~Member(financial_records[1].date, workdays)
    /\ Member(financial_records[2].date, workdays)
    /\ result.raised = "None"
    /\ Len(result.value) > 2

\* C6: when fewer than 30 calendar entries follow the last input date,
\* Strategy A succeeds and appends exactly as many synthetic records as
\* entries remain (none, so that output = input, when the last input date
\* is the last calendar entry); fewer than 30 synthetic records are
\* produced in no other case.
C6_DailyShortExtensionOnlyNearTheTop ==
    (CalledDaily /\ financial_records # <<>>
                 /\ Member(LastRecord.date, workdays))
        => LET n == Len(financial_records)
               remaining == EntriesAfter(LastRecord.date)
           IN  /\ result.raised = "None"
               /\ remaining < 30 => Len(result.value) = n + remaining
               /\ LastRecord.date = workdays[Len(workdays)]
                     => result.value = financial_records
               /\ Len(result.value) - n < 30 => remaining < 30

\* the last input date is the last calendar entry: output = input
C6_Witness ==
    /\ CalledDaily
    /\ financial_records # <<>>
    /\ LastRecord.date = workdays[Len(workdays)]
    /\ result = Return(financial_records)

(***************************************************************************)
(* Properties of the next-pair rule and of Strategy B                      *)
(***************************************************************************)
CalledNextDays == pc = "done" /\ op = "_get_next_days"

CalledThreeField == pc = "done" /\ op = "_daily_three_field_indices_expander"

\* the calendar day after date, by carrying into the month and the year
NextCalendarDay(date) ==
    IF date.day < DaysInMonth(date.year, date.month)
    THEN Date(date.year, date.month, date.day + 1)
    ELSE IF date.month < 12 THEN Date(date.year, date.month + 1, 1)
    ELSE Date(date.year + 1, 1, 1)

\* e is d advanced by one calendar month at the same day-of-month
OneMonthAhead(d, e) ==
    /\ e.day = d.day
    /\ \/ d.month < 12 /\ e.month = d.month + 1 /\ e.year = d.year
       \/ d.month = 12 /\ e.month = 1 /\ e.year = d.year + 1

\* none of the three rules applies to (d, e)
NoRuleApplies(d, e) == ~OneMonthAhead(d, e) /\ d.day # 1 /\ e.day # 1

\* C8: for every pair d < e, _get_next_days(d, e) returns (d+1, e+1) if e
\* is d one calendar month ahead; otherwise (d, e+1) if d.day = 1;
\* otherwise (d+1, e) if e.day = 1.  A date that changes moves forward by
\* exactly one calendar day and no date moves backwards.
C8_NextPairRule ==
    (CalledNextDays /\ DateLT(start_date, end_date))
        => /\ OneMonthAhead(start_date, end_date)
                 => result = Return(<<NextCalendarDay(start_date),
                                      NextCalendarDay(end_date)>>)
           /\ (~OneMonthAhead(start_date, end_date) /\ start_date.day = 1)
                 => result = Return(<<start_date,
                                      NextCalendarDay(end_date)>>)
           /\ (~OneMonthAhead(start_date, end_date) /\ start_date.day # 1
                   /\ end_date.day = 1)
                 => result = Return(<<NextCalendarDay(start_date),
                                      end_date>>)
           /\ result.raised = "None"
                 => /\ ToOrdinal(result.value[1]) - ToOrdinal(start_date)
                           \in {0, 1}
                    /\ ToOrdinal(result.value[2]) - ToOrdinal(end_date)
                           \in {0, 1}
                    /\ DateLE(start_date, result.value[1])
                    /\ DateLE(end_date, result.value[2])

\* both dates cross the end of the year
C8_Witness ==
    /\ CalledNextDays
    /\ start_date.month = 12 /\ start_date.day = 31
    /\ end_date.month = 1 /\ end_date.day = 31
    /\ result = Return(<<Date(start_date.year + 1, 1, 1),
                         Date(end_date.year, 2, 1)>>)

\* C9: _get_next_days(d, e) raises ValueError when d = e or d > e, and
\* when d < e but none of the three rules applies; it returns a pair in
\* every other case.
C9_NextDaysRaisesOnInvalidPairs ==
    CalledNextDays
        => /\ result.raised \in {"None", "ValueError"}
           /\ result.raised = "ValueError"
                 <=> \/ start_date = end_date
                     \/ DateLT(end_date, start_date)
                     \/ /\ DateLT(start_date, end_date)
                        /\ NoRuleApplies(start_date, end_date)
           /\ result.raised = "None"
                 => /\ Len(result.value) = 2
                    /\ ValidDate(result.value[1].year, result.value[1].month,
                                 result.value[1].day)
                    /\ ValidDate(result.value[2].year, result.value[2].month,
                                 result.value[2].day)

\* equal dates on the first day of a month are rejected
C9_Witness ==
    /\ CalledNextDays
    /\ start_date = end_date
    /\ start_date.day = 1
    /\ result = Raise("ValueError")

RECURSIVE IteratedPairs(_, _, _)
\* the pairs obtained by applying the next-pair rule once, twice, ...,
\* k times to (d, e); defined when no application raises
IteratedPairs(d, e, k) ==
    IF k = 0 THEN <<>>
    ELSE LET p == _get_next_days(d, e).value
         IN  <<p>> \o IteratedPairs(p[1], p[2], k - 1)

SyntheticPairs(k) ==
    [j \in 1..k |->
        <<result.value[Len(financial_records) + j].date,
          result.value[Len(financial_records) + j].end_date>>]

\* the last input record is the pair (d, e)
ExtendedFrom(d, e) ==
    /\ CalledThreeField
    /\ financial_records # <<>>
    /\ LastRecord.date = d
    /\ LastRecord.end_date = e

\* the first day of the month after the month after date's month
FirstOfSecondNextMonth(date) ==
    IF date.month <= 10 THEN Date(date.year, date.month + 2, 1)
    ELSE Date(date.year + 1, date.month - 10, 1)

\* the day-of-month of date does not exist in the following month
DayMissingInNextMonth(date) ==
    IF date.month < 12
    THEN date.day > DaysInMonth(date.year, date.month + 1)
    ELSE date.day > DaysInMonth(date.year + 1, 1)

\* C10: the month-rollover traces of Strategy B from (1993-01-28,
\* 1993-02-28), (2000-05-30, 2000-06-30) and the leap-year pair
\* (1996-01-28, 1996-02-28); in general, from a pair one month apart, the
\* synthetic start dates whose day-of-month does not exist in the
\* following month all have the end date 'first day of the month after
\* that'.
C10_MonthRolloverTraces ==
    /\ ExtendedFrom(Date(1993, 1, 28), Date(1993, 2, 28))
          => /\ result.raised = "None"
             /\ SyntheticPairs(4) =
                    << <<Date(1993, 1, 29), Date(1993, 3, 1)>>,
                       <<Date(1993, 1, 30), Date(1993, 3, 1)>>,
                       <<Date(1993, 1, 31), Date(1993, 3, 1)>>,
                       <<Date(1993, 2, 1), Date(1993, 3, 1)>> >>
    /\ ExtendedFrom(Date(2000, 5, 30), Date(2000, 6, 30))
          => /\ result.raised = "None"
             /\ SyntheticPairs(2) =
                    << <<Date(2000, 5, 31), Date(2000, 7, 1)>>,
                       <<Date(2000, 6, 1), Date(2000, 7, 1)>> >>
    /\ ExtendedFrom(Date(1996, 1, 28), Date(1996, 2, 28))
          => /\ result.raised = "None"
             /\ SyntheticPairs(3) =
                    << <<Date(1996, 1, 29), Date(1996, 2, 29)>>,
                       <<Date(1996, 1, 30), Date(1996, 3, 1)>>,
                       <<Date(1996, 1, 31), Date(1996, 3, 1)>> >>
    /\ (CalledThreeField /\ financial_records # <<>>
            /\ OneMonthAhead(LastRecord.date, LastRecord.end_date)
            /\ result.raised = "None")
          => \A j \in (Len(financial_records) + 1)..Len(result.value) :
                 DayMissingInNextMonth(result.value[j].date)
                     => result.value[j].end_date =
                            FirstOfSecondNextMonth(result.value[j].date)

\* the non-leap January trace has been produced
C10_Witness ==
    /\ ExtendedFrom(Date(1993, 1, 28), Date(1993, 2, 28))
    /\ result.raised = "None"
    /\ SyntheticPairs(3) =
           << <<Date(1993, 1, 29), Date(1993, 3, 1)>>,
              <<Date(1993, 1, 30), Date(1993, 3, 1)>>,
              <<Date(1993, 1, 31), Date(1993, 3, 1)>> >>

\* the pair of the j-th record of the output
PairOf(j) == <<result.value[j].date, result.value[j].end_date>>

IncreasingOneMonthApartInput ==
    /\ CalledThreeField
    /\ financial_records # <<>>
    /\ OneMonthAhead(LastRecord.date, LastRecord.end_date)
    /\ \A j \in 2..Len(financial_records) :
           /\ DateLT(financial_records[j - 1].date, financial_records[j].date)
           /\ DateLT(financial_records[j - 1].end_date,
                     financial_records[j].end_date)

RepeatedDates ==
    { j \in (Len(financial_records) + 1)..Len(result.value) :
          result.value[j].date = result.value[j - 1].date }

CalledIpca == pc = "done" /\ op = "_ipca_from_15_expander"

\* the last input date with its day set to 1
LastMonth == Date(LastRecord.date.year, LastRecord.date.month, 1)

\* the first day of the month that follows the month of date
FirstOfFollowingMonth(date) ==
    IF date.month = 12 THEN Date(date.year + 1, 1, 1)
    ELSE Date(date.year, date.month + 1, 1)

\* the records of the server's answer that are dated lastMonth or later
ProxySeries ==
    SelectSeq([k \in 1..Len(response.json) |->
                   [date |-> Date(response.json[k].data[3],
                                  response.json[k].data[2],
                                  response.json[k].data[1]),
                    value |-> response.json[k].valor[2]]],
              LAMBDA r : DateLE(LastMonth, r.date))

C16_IpcaRaisesOnlyForFutureMonths ==
    (CalledIpca /\ financial_records # <<>>)
        => /\ DateLT(today, LastMonth)
                 => /\ result = Raise("ValueError")
                    /\ "value" \notin DOMAIN result
           /\ DateLE(LastMonth, today) => result.raised # "ValueError"
           /\ (DateLE(LastMonth, today) /\ DateLT(today, LastRecord.date)
                  /\ response.status = "ok")
                 => result.raised = "None"

\* a series whose last month starts after today has been refused
C16_Witness ==
    /\ CalledIpca
    /\ financial_records # <<>>
    /\ DateLT(today, LastMonth)
    /\ result = Raise("ValueError")

\* a series whose last date is later than today, in the month of today, has
\* been extended
C16_WitnessSameMonth ==
    /\ CalledIpca
    /\ financial_records # <<>>
    /\ DateLE(LastMonth, today)
    /\ DateLT(today, LastRecord.date)
    /\ result.raised = "None"

(***************************************************************************)
(* Properties of the dispatch                                              *)
(***************************************************************************)
CalledExpander == pc = "done" /\ op = "get_expanded_indicators"

\* the dates (and, for code 226, the end dates) of the input never decrease
OrderedInput ==
    \A j \in 2..Len(financial_records) :
        /\ DateLE(financial_records[j - 1].date, financial_records[j].date)
        /\ indices_code = Tr
              => DateLE(financial_records[j - 1].end_date,
                        financial_records[j].end_date)

\* the positions of the synthetic records of the output
SyntheticPositions == (Len(financial_records) + 1)..Len(result.value)

C17_DispatchByCode ==
    CalledExpander
        => /\ indices_code \in {Selic, Cdi}
                 => /\ result = _daily_workday_indices_expander(
                                    workdays, financial_records)
                    /\ requests = <<>>
                    /\ financial_records # <<>>
                          => lookups = <<LastRecord.date>>
           /\ indices_code = Tr
                 => /\ result = _daily_three_field_indices_expander(
                                    financial_records)
                    /\ lookups = <<>>
                    /\ requests = <<>>
           /\ indices_code = Ipca
                 => /\ result = _ipca_from_15_expander(
                                    financial_records, today, response)
                    /\ lookups = <<>>
                    /\ (financial_records # <<>> /\ DateLE(LastMonth, today))
                          => Len(requests) = 1
           /\ indices_code \notin {Selic, Cdi, Tr, Ipca}
                 => /\ result = Raise("KeyError")
                    /\ lookups = <<>>
                    /\ requests = <<>>

\* the code of the IPCA-15 series itself has no method: a series of it
\* that Strategy C would extend is refused
C17_Witness ==
    /\ CalledExpander
    /\ indices_code = Ipca15
    /\ financial_records # <<>>
    /\ DateLE(LastMonth, today)
    /\ response.status = "ok"
    /\ result = Raise("KeyError")
    /\ requests = <<>>

\* C18: for every known code the extension of an empty input returns an
\* empty sequence and raises nothing, without any calendar lookup or proxy
\* request.
C18_EmptyInputIsNoOp ==
    (CalledExpander /\ indices_code \in KnownCodes
        /\ financial_records = <<>>)
        => /\ result = Return(<<>>)
           /\ lookups = <<>>
           /\ requests = <<>>

\* the empty series of code 433 has been extended while the server was
\* answering with an HTTP error
C18_Witness ==
    /\ CalledExpander
    /\ indices_code = Ipca
    /\ financial_records = <<>>
    /\ response.status = "HTTPError"
    /\ result = Return(<<>>)

CalledMonth == pc = "done" /\ op = "get_next_month"

\* C20: get_next_month(m) returns m + 1 for every m in 1..11, returns 1
\* for m = 12 and raises ValueError for every integer m < 1 or m > 12; a
\* returned month is always in 1..12.
C20_NextMonthWrapsAfterDecember ==
    CalledMonth
        => /\ month_arg \in 1..11 => result = Return(month_arg + 1)
           /\ month_arg = 12 => result = Return(1)
           /\ (month_arg < 1 \/ month_arg > 12)
                 => result = Raise("ValueError")
           /\ result.raised = "None" => result.value \in 1..12

\* the month after November is December
C20_Witness ==
    /\ CalledMonth
    /\ month_arg = 11
    /\ result = Return(12)

(***************************************************************************)
(* Properties of is_same_date_month_ahead                                  *)
(***************************************************************************)
CalledSameDate == pc = "done" /\ op = "is_same_date_month_ahead"

\* the month and the year that follow the month of date
FollowingMonth(date) ==
    IF date.month = 12 THEN [year |-> date.year + 1, month |-> 1]
    ELSE [year |-> date.year, month |-> date.month + 1]

\* the day-of-month of date exists in the following month
DayExistsInFollowingMonth(date) ==
    date.day <= DaysInMonth(FollowingMonth(date).year,
                            FollowingMonth(date).month)

\* C21: is_same_date_month_ahead(d1, d2) never raises; it is true exactly
\* when the date with the day-of-month of d1 in the month following the
\* month of d1 (of the next year after December) exists and equals d2; it
\* is false when that date does not exist, when d2 = d1 and when d2 < d1.
C21_SameDateMonthAhead ==
    CalledSameDate
        => /\ result.raised = "None"
           /\ result.value
                 = (/\ DayExistsInFollowingMonth(start_date)
                    /\ end_date.year = FollowingMonth(start_date).year
                    /\ end_date.month = FollowingMonth(start_date).month
                    /\ end_date.day = start_date.day)
           /\ ~DayExistsInFollowingMonth(start_date) => result.value = FALSE
           /\ DateLE(end_date, start_date) => result.value = FALSE

\* 29 January of a common year has no date one month ahead: the answer for
\* 28 February, the last day of the following month, is false
C21_Witness ==
    /\ CalledSameDate
    /\ start_date = Date(1993, 1, 29)
    /\ end_date = Date(1993, 2, 28)
    /\ result = Return(FALSE)

(***************************************************************************)
(* Properties of the construction of the calendar                          *)
(***************************************************************************)
CalledWorkdays == pc = "done" /\ op = "Workdays"

\* the operations that read the calendar
CalendarReads ==
    {"binary_search", "get_extra_workdays", "__getitem__", "__iter__",
     "__len__", "_daily_workday_indices_expander"}

\* the rows of the file that the last Workdays(...) call names
RowsOfPathArg == files[IF IsNone(path_arg) THEN DefaultPath ELSE path_arg]

\* C22: a Workdays(...) call that loads a source whose number of dates
\* differs from the expected constant raises AssertionError and leaves the
\* singleton wrapper without an instance; an instance, and so every lookup
\* or extension, always has a calendar of the expected number of dates;
\* when the number matches the construction succeeds with the dates of
\* the source and the reported length is the expected constant.
C22_LoadFailsFastOnWrongCount ==
    /\ (CalledWorkdays /\ result.loads = 1)
          => IF Len(RowsOfPathArg) # _number_workdays
             THEN /\ result.raised = "AssertionError"
                  /\ "value" \notin DOMAIN result
                  /\ IsNone(workdays)
             ELSE /\ result.raised = "None"
                  /\ result.value = Instance
                  /\ Len(workdays) = _number_workdays
                  /\ \A k \in 1..Len(workdays) :
                         Row(workdays[k]) = RowsOfPathArg[k]
    /\ ~IsNone(workdays) => Len(workdays) = _number_workdays
    /\ (pc = "done" /\ op \in CalendarReads)
          => /\ ~IsNone(workdays)
             /\ Len(workdays) = _number_workdays
    /\ (pc = "done" /\ op = "__len__") => result = Return(_number_workdays)

\* two constructions in a row have failed on a file that is one row too
\* long and there is still no instance
C22_Witness ==
    /\ CalledWorkdays
    /\ loads = 2
    /\ Len(RowsOfPathArg) = _number_workdays + 1
    /\ result.raised = "AssertionError"
    /\ IsNone(workdays)

\* C23: after every successful construction of Workdays the loaded sequence
\* is strictly increasing, whatever content of the right number of rows the
\* source has.
C23_LoadedCalendarIsStrictlyIncreasing ==
    ~IsNone(workdays) => StrictlyIncreasing(workdays)

\* C24: once a Workdays instance exists, every step leaves it as it is: a
\* later Workdays(...) call, with any path argument, returns that instance
\* without running the load again, and no search, indexing, iteration or
\* extension changes the dates of the calendar or their order.
C24_CalendarIsBuiltOnceAndReadOnly ==
    [][~IsNone(workdays)
          => /\ workdays' = workdays
             /\ workdays_path' = workdays_path
             /\ loads' = loads
             /\ op' = "Workdays"
                   => /\ result'.raised = "None"
                      /\ result'.value = Instance
                      /\ result'.loads = 0]_vars

\* Workdays("other.csv") was called after Workdays() had loaded
\* workdays.csv, the other file being of a wrong length: the instance of
\* workdays.csv is returned
C24_Witness ==
    /\ CalledWorkdays
    /\ path_arg = OtherPath
    /\ Len(files[OtherPath]) # _number_workdays
    /\ workdays_path = DefaultPath
    /\ loads = 1
    /\ result.raised = "None"
    /\ result.loads = 0
    /\ result.value._workdays_path = DefaultPath

(***************************************************************************)
(* Properties of the stored series                                         *)
(***************************************************************************)
CalledStore == pc = "done" /\ op = "set_expanded_indices"

\* C25: a call of set_expanded_indices whose extension fails (unknown code,
\* LookupError of Strategy A, ValueError of a step of Strategy B, error of
\* the proxy fetch of Strategy C) hands the error to the caller, returns
\* no records, and leaves the records stored for that code and for every
\* other code as they were before the call.
C25_FailureStoresNothing ==
    [][(op' = "set_expanded_indices" /\ result'.raised # "None")
          => /\ expanded_indices_records' = expanded_indices_records
             /\ "value" \notin DOMAIN result'
             /\ result'.raised = get_expanded_indicators(
                                     workdays', indices_code',
                                     financial_records', today',
                                     response').raised]_vars

\* Strategy B has failed at its third step on a series of code 226 while
\* an extended series of code 226 and one of code 11 are stored: both are
\* still there
C25_Witness ==
    /\ CalledStore
    /\ indices_code = Tr
    /\ financial_records =
           <<IndicesRecord3(Date(1993, 1, 30), Date(1993, 2, 1), 1)>>
    /\ result = Raise("ValueError")
    /\ DOMAIN expanded_indices_records = {Selic, Tr}
    /\ Len(expanded_indices_records[Tr]) = 31
    /\ Len(expanded_indices_records[Selic]) = 31

(***************************************************************************)
(* Properties of the API client                                            *)
(***************************************************************************)
CalledTrim == pc = "done" /\ op = "_rm_records_outside_range"

\* record r is dated within the bounds of the call, None being no bound
WithinRange(r) ==
    /\ IsNone(start_date) \/ DateLE(start_date, r.date)
    /\ IsNone(end_date) \/ DateLE(r.date, end_date)

\* the records of the input within the bounds, in their order
RecordsWithinRange == SelectSeq(financial_records, WithinRange)

\* the dates of the input never decrease
ChronologicalInput ==
    \A k \in 2..Len(financial_records) :
        DateLE(financial_records[k - 1].date, financial_records[k].date)

\* C26 as stated: for every input sequence of records,
\* _rm_records_outside_range(start, end, records) returns, in their
\* original order, exactly the records with start <= date <= end, a bound
\* that is None being no limit.
C26_TrimKeepsExactlyTheRange ==
    CalledTrim
        => /\ result.raised = "None"
           /\ result.value = RecordsWithinRange

\* C26 restricted to the inputs the API delivers: the same holds of every
\* input sequence of records whose dates never decrease; records dated
\* exactly start or exactly end are kept.
C26_TrimKeepsTheRangeOfChronologicalInput ==
    (CalledTrim /\ ChronologicalInput)
        => /\ result.raised = "None"
           /\ result.value = RecordsWithinRange

\* three records in order, the second dated start and end at once: it is
\* the only one kept
C26_Witness ==
    /\ CalledTrim
    /\ Len(financial_records) = 3
    /\ ChronologicalInput
    /\ ~IsNone(start_date)
    /\ start_date = end_date
    /\ result = Return(<<financial_records[2]>>)


(***************************************************************************)
(* C27: the bounds of a query                                              *)
(***************************************************************************)
CalledUrl == pc = "done" /\ op = "_create_api_url"

\* the end date the query runs to: the day of the call when none is given
EffectiveEnd == IF IsNone(end_date) THEN today ELSE end_date

\* C27: _create_api_url(code, start, end) raises ValueError exactly when
\* start is a date later than the effective end date, which is the day of
\* the call when end is None; equal start and end dates are accepted and
\* a start of None never raises.
C27_UrlRejectsStartAfterEnd ==
    CalledUrl
        => /\ result.raised \in {"None", "ValueError"}
           /\ result.raised = "ValueError"
                  <=> (IsDate(start_date) /\ DateLT(EffectiveEnd, start_date))
           /\ (IsDate(start_date) /\ start_date = EffectiveEnd)
                  => result.raised = "None"
           /\ IsNone(start_date) => result.raised = "None"

\* start and end are the same day and the url carries it at both ends
C27_Witness ==
    /\ CalledUrl
    /\ start_date = Date(2010, 4, 21)
    /\ end_date = Date(2010, 4, 21)
    /\ result = Return([codigo_serie |-> Ipca15,
                        dataInicial |-> <<21, 4, 2010>>,
                        dataFinal |-> <<21, 4, 2010>>])

\* start is the day after the day of the call and no end is given
C27_WitnessRaised ==
    /\ CalledUrl
    /\ start_date = Date(2010, 4, 22)
    /\ IsNone(end_date)
    /\ today = Date(2010, 4, 21)
    /\ result = Raise("ValueError")


(***************************************************************************)
(* C28: Strategy C below the coverage of the proxy series                  *)
(***************************************************************************)
\* the server has a proxy series and its first record is dated after the
\* month of the last input record
BelowProxyCoverage ==
    /\ financial_records # <<>>
    /\ response.status = "ok"
    /\ response.json # <<>>
    /\ DateLT(LastMonth, Strptime(response.json[1].data))

ExtendedFromOrderedPair ==
    /\ CalledThreeField
    /\ financial_records # <<>>
    /\ DateLT(LastRecord.date, LastRecord.end_date)
    /\ result.raised = "None"

\* C29: for every input whose last record has date < end_date and whose
\* extension succeeds, every synthetic record returned by Strategy B has a
\* date strictly earlier than its end_date.
C29_SyntheticDateBeforeEndDate ==
    ExtendedFromOrderedPair
        => \A j \in SyntheticPositions :
               DateLT(result.value[j].date, result.value[j].end_date)


(***************************************************************************)
(* C30: the update loop of main                                            *)
(***************************************************************************)
\* a step of main has ended a pass of the loop
PassEnded == Len(processed') = Len(processed) + 1

\* the local variables of the pass that has just ended
LastPass == processed'[Len(processed')]

\* the last rows of the sheet of the code are the rows of the records
WrittenLast(_worksheets, code, records) ==
    /\ code \in DOMAIN _worksheets
    /\ Len(_worksheets[code]) >= Len(records)
    /\ SubSeq(_worksheets[code],
              Len(_worksheets[code]) - Len(records) + 1,
              Len(_worksheets[code])) = FormatRecords(code, records)

\* what a pass of the loop does for its code, given the last date of the
\* code in the workbook before the pass and the series fetched in it
PassUpdatesStaleCode(code, wb_last_date, fetched) ==
    IF SameDate(wb_last_date, get_latest_date(api_records', code))
    THEN /\ ~LastPass.updated
         /\ LastPass.expanded_indices = <<>>
         /\ worksheets' = worksheets
         /\ indices_dates' = indices_dates
         /\ need_update' = need_update
    ELSE /\ LastPass.updated
         /\ need_update'
         /\ fetched # <<>>
         /\ Return(LastPass.expanded_indices)
                = get_expanded_indicators(workdays, code, fetched, today,
                                          server[Ipca15])
         /\ Len(LastPass.expanded_indices) > Len(fetched)
         /\ SubSeq(LastPass.expanded_indices, 1, Len(fetched)) = fetched
         /\ WrittenLast(worksheets', code, LastPass.expanded_indices)
         /\ indices_dates'[code] = fetched[Len(fetched)].date
         /\ \A other \in DOMAIN worksheets' \ {code} :
                /\ other \in DOMAIN worksheets
                /\ worksheets'[other] = worksheets[other]
         /\ \A other \in DOMAIN indices_dates' \ {code} :
                /\ other \in DOMAIN indices_dates
                /\ indices_dates'[other] = indices_dates[other]

\* C30: main processes the codes 11, 12, 226, 433 in this order; a code
\* whose last date in the workbook equals the latest date fetched from the
\* API is neither expanded nor written; for every other code the fetched
\* series is expanded and written, and the latest date of the fetched
\* series, a real record's and not a synthetic one's, is recorded as the
\* last date of the code; the workbook is saved once, after the four
\* passes, if and only if at least one code was updated.
C30_MainUpdatesStaleCodesAndSavesOnce ==
    [][/\ PassEnded
             => /\ LastPass.indices_code
                       = <<11, 12, 226, 433>>[Len(processed')]
                /\ saves' = saves
                /\ PassUpdatesStaleCode(
                       LastPass.indices_code,
                       get_last_indices_date(indices_dates,
                                             LastPass.indices_code),
                       api_records'[LastPass.indices_code])
       /\ saves' # saves
             => /\ saves = 0
                /\ saves' = 1
                /\ main_pc' = "done"
       /\ (main_pc = "loop" /\ main_pc' = "done")
             => /\ Len(processed) = 4
                /\ saves' = 1 <=> \E k \in 1..4 : processed[k].updated
      ]_vars

\* a run has ended in which the sheet of code 11 was one record behind and
\* has been brought up to 4 January 2001, followed by 30 synthetic rows,
\* code 12 was up to date and has no new row, and the workbook was saved
C30_Witness ==
    /\ main_pc = "done"
    /\ saves = 1
    /\ processed[1].updated
    /\ processed[1].wb_last_date = Date(2001, 1, 3)
    /\ indices_dates[Selic] = Date(2001, 1, 4)
    /\ Len(worksheets[Selic]) = 33
    /\ worksheets[Selic][3] = <<Date(2001, 1, 4), 3>>
    /\ worksheets[Selic][4] = <<Date(2001, 1, 5), 3>>
    /\ ~processed[2].updated
    /\ Len(worksheets[Cdi]) = 3

\* a run has ended in which every code was up to date: nothing was saved
C30_WitnessUpToDate ==
    /\ main_pc = "done"
    /\ saves = 0
    /\ \A k \in 1..4 : ~IsNone(processed[k].wb_last_date)

=============================================================================
